---- MODULE Spec2Model ----
(***************************************************************************)
(* A model of dynamixel_u2d2: the hardware-facing U2D2Interface (link rate  *)
(* save/restore around discovery and reconfiguration, batch validation,    *)
(* bulk reads) and the simulated FakeU2D2Interface.                        *)
(*                                                                         *)
(* Every public method is one action.  The serial transport (the Dynamixel *)
(* SDK's PortHandler / PacketHandler / GroupBulkRead) is outside the        *)
(* repository: each of its calls has an outcome the action draws with \E,   *)
(* and the calls a method issues are recorded in `trace`.                  *)
(***************************************************************************)
EXTENDS Integers, Sequences, FiniteSets, TLC

VARIABLES
    linkBaud,     \* the rate the serial link is at (PortHandler's baud rate)
    devId,        \* device -> the ID register (address 7) of that device
    devBaud,      \* device -> the baud-rate register (address 8): a code 0..6
    op,           \* the last method called: [name, args]
    startBaud,    \* linkBaud when that method was called
    startId,      \* devId when that method was called
    trace,        \* the transport calls the method issued, in order
    ret,          \* what the method returned
    pc,           \* "idle", "returned" (the caller holds the last method's
                  \* result), or the batch method whose loop is running
    idx,          \* scan_all_baudrates: index of the next candidate rate
    acc,          \* the result map a running loop has built so far
    hist,         \* scan_all_baudrates: the list each scan so far returned
    queue,        \* batch methods: the entries still to process
    busUsed,      \* batch methods: some transport call was issued
    fake,         \* the fields of the FakeU2D2Interface instance
    startFake,    \* fake when the last method was called
    exc,          \* the exception the last method raised, or "none"
    called,       \* the init_* methods that have returned on the instance
    lastInitIds,  \* the motor_ids of the last init_group_sync_read, if any
    simSteps,     \* simulation steps so far that moved a motor
    raw           \* the raw byte string the caller holds for the decoders

hwVars   == <<linkBaud, devId, devBaud>>
callVars == <<op, startBaud, startId, trace, ret>>
loopVars == <<pc, idx, acc, hist, queue, busUsed>>
fakeVars == <<fake, startFake, exc, called, lastInitIds, simSteps, raw>>
vars     == <<hwVars, callVars, loopVars, fakeVars>>

----------------------------------------------------------------------------
(* Bounds of the model *)

\* scan ranges are range(1, n+1) for n in 0..MaxScanId
MaxScanId == 2
\* a batch method is given at most MaxBatch entries
MaxBatch == 2
\* a bulk read is given at most MaxBulk entries
MaxBulk == 2
\* a sync write is given at most MaxValues values
MaxValues == 3
\* at most MaxSimSteps simulation steps move a motor
MaxSimSteps == 2
\* the longest byte string handed to a decoder
MaxBytes == 4

----------------------------------------------------------------------------
(* Constants of the program *)

BAUDRATE_MAP ==
    (9600 :> 0) @@ (57600 :> 1) @@ (115200 :> 2) @@ (1000000 :> 3) @@
    (2000000 :> 4) @@ (3000000 :> 5) @@ (4000000 :> 6)

SCAN_BAUDRATES == <<9600, 57600, 115200, 1000000, 2000000, 3000000, 4000000>>

ADDR_PRESENT_POSITION == 132
ADDR_PRESENT_VELOCITY == 128
ADDR_PRESENT_CURRENT == 126
LEN_PRESENT_POSITION == 4
LEN_PRESENT_VELOCITY == 4
LEN_PRESENT_CURRENT == 2

ADDR_OPERATING_MODE == 11
ADDR_GOAL_POSITION == 116
ADDR_GOAL_CURRENT == 102
ADDR_ID == 7
ADDR_BAUD_RATE == 8
MAX_ID == 252

\* the rate a device whose baud-rate register holds `code` talks at
RateOfCode(code) == CHOOSE b \in DOMAIN BAUDRATE_MAP : BAUDRATE_MAP[b] = code

----------------------------------------------------------------------------
(* The inputs the actions draw from *)

Dev == {"d1", "d2"}
\* rates a caller passes and the link is opened at
BaudInputs == {57600, 4000000}
\* the configurations the bus starts in: factory-fresh devices share ID 1
InitIds == {1, 2}
InitCodes == {1, 6}

----------------------------------------------------------------------------
(* The transport collaborator *)

GetOutcomes  == {"ok", "raise"}
\* setBaudRate: accepted; refused (returns False, rate kept); raises with the
\* rate kept; raises after the rate was changed
SetOutcomes  == {"ok", "refuse", "raise", "raiseset"}
PingOutcomes == {"ok", "fail", "raise"}

Raised(o) == o \in {"raise", "raiseset"}

Call(name, args, out) == [call |-> name, args |-> args, out |-> out]

\* the link rate after setBaudRate(b) ended with outcome o
SetBaudRate(link, b, o) == IF o \in {"ok", "raiseset"} THEN b ELSE link

\* some device holds `id` and talks at `rate`
Responds(ids, codes, id, rate) ==
    \E d \in Dev : ids[d] = id /\ RateOfCode(codes[d]) = rate

\* a method that runs in one step has returned after it and leaves no loop behind
NoLoop ==
    /\ pc' = "returned"
    /\ idx' = 0
    /\ acc' = <<>>
    /\ hist' = <<>>
    /\ queue' = <<>>
    /\ busUsed' = FALSE

----------------------------------------------------------------------------
(* U2D2Interface.scan_motors_at_baudrate *)

\* the handler `except Exception` of the baud-rate methods: try to restore
\* the original rate, swallow whatever that raises, report failure
ExceptRestore(link, original_baud, t, e, failure) ==
    [link  |-> SetBaudRate(link, original_baud, e),
     ret   |-> failure,
     trace |-> t \o <<Call("setBaudRate", <<original_baud>>, e)>>]

PingTrace(scan_range, p) ==
    [i \in 1..Len(scan_range) |-> Call("ping", <<scan_range[i]>>, p[scan_range[i]])]

Detected(scan_range, p) ==
    LET Found(id) == p[id] = "ok" IN SelectSeq(scan_range, Found)

\* scan_motors_at_baudrate with an except handler that only reports failure
ScanRunBareHandler(link, baudrate, scan_range, g, s, p, r, e) ==
    LET original_baud == link
        tGet     == <<Call("getBaudRate", <<>>, g)>>
        tSet     == tGet \o <<Call("setBaudRate", <<baudrate>>, s)>>
        link1    == SetBaudRate(link, baudrate, s)
        tPing    == tSet \o PingTrace(scan_range, p)
        tRestore == tPing \o <<Call("setBaudRate", <<original_baud>>, r)>>
        link2    == SetBaudRate(link1, original_baud, r)
    IN  IF g = "raise"
        THEN [link |-> link, ret |-> <<>>, trace |-> tGet]
        ELSE IF s = "refuse"
        THEN [link |-> link1, ret |-> <<>>, trace |-> tSet]
        ELSE IF Raised(s)
        THEN [link |-> link1, ret |-> <<>>, trace |-> tSet]
        ELSE IF Raised(r)
        THEN [link |-> link2, ret |-> <<>>, trace |-> tRestore]
        ELSE [link |-> link2, ret |-> Detected(scan_range, p), trace |-> tRestore]

\* one call: g, s, p, r, e are the outcomes of getBaudRate, of
\* setBaudRate(baudrate), of the pings, of the restoring setBaudRate and of
\* the except handler's setBaudRate
ScanRun(link, baudrate, scan_range, g, s, p, r, e) ==
    LET original_baud == link
        tGet     == <<Call("getBaudRate", <<>>, g)>>
        tSet     == tGet \o <<Call("setBaudRate", <<baudrate>>, s)>>
        link1    == SetBaudRate(link, baudrate, s)
        tPing    == tSet \o PingTrace(scan_range, p)
        tRestore == tPing \o <<Call("setBaudRate", <<original_baud>>, r)>>
        link2    == SetBaudRate(link1, original_baud, r)
    IN  IF g = "raise"
        THEN \* original_baud is unbound: the handler's restore raises NameError
             [link |-> link, ret |-> <<>>, trace |-> tGet]
        ELSE IF s = "refuse"
        THEN [link |-> link1, ret |-> <<>>, trace |-> tSet]
        ELSE IF Raised(s)
        THEN ExceptRestore(link1, original_baud, tSet, e, <<>>)
        ELSE IF Raised(r)
        THEN ExceptRestore(link2, original_baud, tRestore, e, <<>>)
        ELSE [link |-> link2, ret |-> Detected(scan_range, p), trace |-> tRestore]

\* the ping outcomes the bus allows at `rate`: only a device that is there answers
PingScripts(ids, codes, scan_range, rate) ==
    LET S == {scan_range[i] : i \in 1..Len(scan_range)}
    IN  {p \in [S -> PingOutcomes] :
            \A id \in S : p[id] = "ok" => Responds(ids, codes, id, rate)}

NoPings(scan_range) == [id \in {scan_range[i] : i \in 1..Len(scan_range)} |-> "fail"]

\* the outcomes one scan can meet; an outcome of a call the scan does not
\* reach is fixed, so that each run is drawn once
ScanScripts(ids, codes, baudrate, scan_range) ==
    {x \in [g : GetOutcomes, s : SetOutcomes, r : SetOutcomes, e : SetOutcomes,
            p : PingScripts(ids, codes, scan_range, baudrate)] :
        LET pinged   == x.g = "ok" /\ x.s = "ok"
            handler  == x.g = "ok" /\ (Raised(x.s) \/ (x.s = "ok" /\ Raised(x.r)))
        IN  /\ (x.g # "ok" => x.s = "ok")
            /\ (~pinged => x.r = "ok" /\ x.p = NoPings(scan_range))
            /\ (~handler => x.e = "ok")}

RangeTo(n) == [i \in 1..n |-> i]

ScanMotorsAtBaudrate ==
    /\ pc = "idle"
    /\ \E baudrate \in BaudInputs, n \in 0..MaxScanId :
        \E x \in ScanScripts(devId, devBaud, baudrate, RangeTo(n)) :
            LET res == ScanRun(linkBaud, baudrate, RangeTo(n), x.g, x.s, x.p, x.r, x.e)
            IN  /\ linkBaud' = res.link
                /\ ret' = res.ret
                /\ trace' = res.trace
                /\ op' = [name |-> "scan_motors_at_baudrate",
                          args |-> <<baudrate, n>>]
                /\ startBaud' = linkBaud
    /\ startId' = devId
    /\ NoLoop
    /\ UNCHANGED <<devId, devBaud>>
    /\ UNCHANGED fakeVars

----------------------------------------------------------------------------
(* U2D2Interface.scan_all_baudrates: one step per candidate rate *)

\* a merge that keeps the rate an ID was first seen at
MergeDetectedKeepFirst(detected_motors, detected, baudrate) ==
    LET found == {detected[i] : i \in 1..Len(detected)}
    IN  [id \in (DOMAIN detected_motors) \cup found |->
            IF id \in DOMAIN detected_motors THEN detected_motors[id] ELSE baudrate]

\* for motor_id in detected: detected_motors[motor_id] = baudrate
MergeDetected(detected_motors, detected, baudrate) ==
    LET found == {detected[i] : i \in 1..Len(detected)}
    IN  [id \in (DOMAIN detected_motors) \cup found |->
            IF id \in found THEN baudrate ELSE detected_motors[id]]

ScanAllBegin ==
    /\ pc = "idle"
    /\ \E n \in 0..MaxScanId :
        op' = [name |-> "scan_all_baudrates", args |-> <<n>>]
    /\ pc' = "scan_all_baudrates"
    /\ idx' = 1
    /\ acc' = <<>>
    /\ hist' = <<>>
    /\ startBaud' = linkBaud
    /\ startId' = devId
    /\ trace' = <<>>
    /\ ret' = <<>>
    /\ UNCHANGED <<hwVars, queue, busUsed>>
    /\ UNCHANGED fakeVars

ScanAllStep ==
    /\ pc = "scan_all_baudrates"
    /\ LET baudrate   == SCAN_BAUDRATES[idx]
           scan_range == RangeTo(op.args[1])
       IN  \E x \in ScanScripts(devId, devBaud, baudrate, scan_range) :
            LET res  == ScanRun(linkBaud, baudrate, scan_range, x.g, x.s, x.p, x.r, x.e)
                next == MergeDetected(acc, res.ret, baudrate)
            IN  /\ linkBaud' = res.link
                /\ acc' = next
                /\ hist' = Append(hist, res.ret)
                /\ IF idx = Len(SCAN_BAUDRATES)
                   THEN pc' = "returned" /\ idx' = 0 /\ ret' = next
                   ELSE pc' = pc /\ idx' = idx + 1 /\ ret' = ret
    /\ UNCHANGED <<devId, devBaud, op, startBaud, startId, trace, queue, busUsed>>
    /\ UNCHANGED fakeVars

----------------------------------------------------------------------------
(* FakeU2D2Interface.scan_motors_at_baudrate and scan_all_baudrates: the     *)
(* simulated scan reports each ID of the range with probability 0.1, that    *)
(* is, any sub-list of the range.                                            *)

\* the range the simulated scans of the model go over
FakeScanRange == <<1>>

\* detected = [motor_id for motor_id in scan_range if random.random() < 0.1]
FakeScanMotorsAtBaudrate(scan_range, drawn) ==
    LET Hit(motor_id) == motor_id \in drawn
    IN  SelectSeq(scan_range, Hit)

\* for motor_id in detected: detected_motors[motor_id] = baudrate
FakeMergeDetected(detected_motors, detected, baudrate) ==
    LET found == {detected[i] : i \in 1..Len(detected)}
    IN  [id \in (DOMAIN detected_motors) \cup found |->
            IF id \in found THEN baudrate ELSE detected_motors[id]]

FakeScanAllBegin ==
    /\ pc = "idle"
    /\ op' = [name |-> "fake_scan_all_baudrates", args |-> <<FakeScanRange>>]
    /\ pc' = "fake_scan_all_baudrates"
    /\ idx' = 1
    /\ acc' = <<>>
    /\ hist' = <<>>
    /\ startBaud' = linkBaud
    /\ startId' = devId
    /\ trace' = <<>>
    /\ ret' = <<>>
    /\ UNCHANGED <<hwVars, queue, busUsed>>
    /\ UNCHANGED fakeVars

FakeScanAllStep ==
    /\ pc = "fake_scan_all_baudrates"
    /\ LET baudrate   == SCAN_BAUDRATES[idx]
           scan_range == op.args[1]
       IN  \E drawn \in SUBSET {scan_range[i] : i \in 1..Len(scan_range)} :
            LET detected == FakeScanMotorsAtBaudrate(scan_range, drawn)
                next     == FakeMergeDetected(acc, detected, baudrate)
            IN  /\ acc' = next
                /\ hist' = Append(hist, detected)
                /\ IF idx = Len(SCAN_BAUDRATES)
                   THEN pc' = "returned" /\ idx' = 0 /\ ret' = next
                   ELSE pc' = pc /\ idx' = idx + 1 /\ ret' = ret
    /\ UNCHANGED <<hwVars, op, startBaud, startId, trace, queue, busUsed>>
    /\ UNCHANGED fakeVars

----------------------------------------------------------------------------
(* U2D2Interface.change_motor_baudrate and change_motor_id *)

WriteOutcomes == {"ok", "fail", "raise"}

\* write1ByteTxRx(id, addr, val) with outcome w on a link at `link`: a write
\* that succeeds reaches every device that holds `id` and talks at that rate
WriteIds(ids, codes, link, id, addr, val, w) ==
    [d \in Dev |->
        IF w = "ok" /\ addr = ADDR_ID /\ ids[d] = id /\ RateOfCode(codes[d]) = link
        THEN val ELSE ids[d]]

WriteCodes(ids, codes, link, id, addr, val, w) ==
    [d \in Dev |->
        IF w = "ok" /\ addr = ADDR_BAUD_RATE /\ ids[d] = id /\ RateOfCode(codes[d]) = link
        THEN val ELSE codes[d]]

\* change_motor_baudrate that looks at new_baud only after it has read the link rate
ChangeMotorBaudrateRunLateValidation(link, ids, codes, motor_id, current_baud, new_baud, g, s, w, r, e) ==
    LET original_baud == link
        baudrate_code == BAUDRATE_MAP[new_baud]
        tGet     == <<Call("getBaudRate", <<>>, g)>>
        tSet     == tGet \o <<Call("setBaudRate", <<current_baud>>, s)>>
        link1    == SetBaudRate(link, current_baud, s)
        tWrite   == tSet \o <<Call("write1ByteTxRx",
                                   <<motor_id, ADDR_BAUD_RATE, baudrate_code>>, w)>>
        codes1   == WriteCodes(ids, codes, link1, motor_id, ADDR_BAUD_RATE, baudrate_code, w)
        tRestore == tWrite \o <<Call("setBaudRate", <<original_baud>>, r)>>
        link2    == SetBaudRate(link1, original_baud, r)
        same(x)  == x @@ [ids |-> ids, codes |-> codes]
        wrote(x) == x @@ [ids |-> ids, codes |-> codes1]
    IN  IF g = "raise"
        THEN same([link |-> link, ret |-> FALSE, trace |-> tGet])
        ELSE IF new_baud \notin DOMAIN BAUDRATE_MAP
        THEN same([link |-> link, ret |-> FALSE, trace |-> tGet])
        ELSE IF s = "refuse"
        THEN same([link |-> link1, ret |-> FALSE, trace |-> tSet])
        ELSE IF Raised(s)
        THEN same(ExceptRestore(link1, original_baud, tSet, e, FALSE))
        ELSE IF w = "raise"
        THEN same(ExceptRestore(link1, original_baud, tWrite, e, FALSE))
        ELSE IF Raised(r)
        THEN wrote(ExceptRestore(link2, original_baud, tRestore, e, FALSE))
        ELSE wrote([link |-> link2, ret |-> (w = "ok"), trace |-> tRestore])

\* one call of each: g, s, w, r, e are the outcomes of getBaudRate, of the
\* switching setBaudRate, of the register write, of the restoring setBaudRate
\* and of the except handler's setBaudRate
ChangeMotorBaudrateRun(link, ids, codes, motor_id, current_baud, new_baud, g, s, w, r, e) ==
    LET original_baud == link
        baudrate_code == BAUDRATE_MAP[new_baud]
        tGet     == <<Call("getBaudRate", <<>>, g)>>
        tSet     == tGet \o <<Call("setBaudRate", <<current_baud>>, s)>>
        link1    == SetBaudRate(link, current_baud, s)
        tWrite   == tSet \o <<Call("write1ByteTxRx",
                                   <<motor_id, ADDR_BAUD_RATE, baudrate_code>>, w)>>
        codes1   == WriteCodes(ids, codes, link1, motor_id, ADDR_BAUD_RATE, baudrate_code, w)
        tRestore == tWrite \o <<Call("setBaudRate", <<original_baud>>, r)>>
        link2    == SetBaudRate(link1, original_baud, r)
        same(x)  == x @@ [ids |-> ids, codes |-> codes]
        wrote(x) == x @@ [ids |-> ids, codes |-> codes1]
    IN  IF new_baud \notin DOMAIN BAUDRATE_MAP
        THEN same([link |-> link, ret |-> FALSE, trace |-> <<>>])
        ELSE IF g = "raise"
        THEN same([link |-> link, ret |-> FALSE, trace |-> tGet])
        ELSE IF s = "refuse"
        THEN same([link |-> link1, ret |-> FALSE, trace |-> tSet])
        ELSE IF Raised(s)
        THEN same(ExceptRestore(link1, original_baud, tSet, e, FALSE))
        ELSE IF w = "raise"
        THEN same(ExceptRestore(link1, original_baud, tWrite, e, FALSE))
        ELSE IF Raised(r)
        THEN wrote(ExceptRestore(link2, original_baud, tRestore, e, FALSE))
        ELSE wrote([link |-> link2, ret |-> (w = "ok"), trace |-> tRestore])

\* change_motor_id that returns as soon as the write is done, without the restore
ChangeMotorIdRunNoRestore(link, ids, codes, current_id, new_id, baudrate, g, s, w, r, e) ==
    LET original_baud == link
        tGet     == <<Call("getBaudRate", <<>>, g)>>
        tSet     == tGet \o <<Call("setBaudRate", <<baudrate>>, s)>>
        link1    == SetBaudRate(link, baudrate, s)
        tWrite   == tSet \o <<Call("write1ByteTxRx", <<current_id, ADDR_ID, new_id>>, w)>>
        ids1     == WriteIds(ids, codes, link1, current_id, ADDR_ID, new_id, w)
        same(x)  == x @@ [ids |-> ids, codes |-> codes]
        wrote(x) == x @@ [ids |-> ids1, codes |-> codes]
    IN  IF new_id < 0 \/ new_id > MAX_ID
        THEN same([link |-> link, ret |-> FALSE, trace |-> <<>>])
        ELSE IF g = "raise"
        THEN same([link |-> link, ret |-> FALSE, trace |-> tGet])
        ELSE IF s = "refuse"
        THEN same([link |-> link1, ret |-> FALSE, trace |-> tSet])
        ELSE IF Raised(s)
        THEN same(ExceptRestore(link1, original_baud, tSet, e, FALSE))
        ELSE IF w = "raise"
        THEN same(ExceptRestore(link1, original_baud, tWrite, e, FALSE))
        ELSE wrote([link |-> link1, ret |-> (w = "ok"), trace |-> tWrite])

\* change_motor_id that takes 252 for out of range
ChangeMotorIdRunOffByOne(link, ids, codes, current_id, new_id, baudrate, g, s, w, r, e) ==
    LET original_baud == link
        tGet     == <<Call("getBaudRate", <<>>, g)>>
        tSet     == tGet \o <<Call("setBaudRate", <<baudrate>>, s)>>
        link1    == SetBaudRate(link, baudrate, s)
        tWrite   == tSet \o <<Call("write1ByteTxRx", <<current_id, ADDR_ID, new_id>>, w)>>
        ids1     == WriteIds(ids, codes, link1, current_id, ADDR_ID, new_id, w)
        tRestore == tWrite \o <<Call("setBaudRate", <<original_baud>>, r)>>
        link2    == SetBaudRate(link1, original_baud, r)
        same(x)  == x @@ [ids |-> ids, codes |-> codes]
        wrote(x) == x @@ [ids |-> ids1, codes |-> codes]
    IN  IF new_id < 0 \/ new_id >= MAX_ID
        THEN same([link |-> link, ret |-> FALSE, trace |-> <<>>])
        ELSE IF g = "raise"
        THEN same([link |-> link, ret |-> FALSE, trace |-> tGet])
        ELSE IF s = "refuse"
        THEN same([link |-> link1, ret |-> FALSE, trace |-> tSet])
        ELSE IF Raised(s)
        THEN same(ExceptRestore(link1, original_baud, tSet, e, FALSE))
        ELSE IF w = "raise"
        THEN same(ExceptRestore(link1, original_baud, tWrite, e, FALSE))
        ELSE IF Raised(r)
        THEN wrote(ExceptRestore(link2, original_baud, tRestore, e, FALSE))
        ELSE wrote([link |-> link2, ret |-> (w = "ok"), trace |-> tRestore])

ChangeMotorIdRun(link, ids, codes, current_id, new_id, baudrate, g, s, w, r, e) ==
    LET original_baud == link
        tGet     == <<Call("getBaudRate", <<>>, g)>>
        tSet     == tGet \o <<Call("setBaudRate", <<baudrate>>, s)>>
        link1    == SetBaudRate(link, baudrate, s)
        tWrite   == tSet \o <<Call("write1ByteTxRx", <<current_id, ADDR_ID, new_id>>, w)>>
        ids1     == WriteIds(ids, codes, link1, current_id, ADDR_ID, new_id, w)
        tRestore == tWrite \o <<Call("setBaudRate", <<original_baud>>, r)>>
        link2    == SetBaudRate(link1, original_baud, r)
        same(x)  == x @@ [ids |-> ids, codes |-> codes]
        wrote(x) == x @@ [ids |-> ids1, codes |-> codes]
    IN  IF new_id < 0 \/ new_id > MAX_ID
        THEN same([link |-> link, ret |-> FALSE, trace |-> <<>>])
        ELSE IF g = "raise"
        THEN same([link |-> link, ret |-> FALSE, trace |-> tGet])
        ELSE IF s = "refuse"
        THEN same([link |-> link1, ret |-> FALSE, trace |-> tSet])
        ELSE IF Raised(s)
        THEN same(ExceptRestore(link1, original_baud, tSet, e, FALSE))
        ELSE IF w = "raise"
        THEN same(ExceptRestore(link1, original_baud, tWrite, e, FALSE))
        ELSE IF Raised(r)
        THEN wrote(ExceptRestore(link2, original_baud, tRestore, e, FALSE))
        ELSE wrote([link |-> link2, ret |-> (w = "ok"), trace |-> tRestore])

\* the outcomes one change can meet when it writes to `id` at `rate`
ChangeScripts(ids, codes, id, rate, valid) ==
    {x \in [g : GetOutcomes, s : SetOutcomes, w : WriteOutcomes,
            r : SetOutcomes, e : SetOutcomes] :
        LET written == x.g = "ok" /\ x.s = "ok"
            restore == written /\ x.w # "raise"
            handler == x.g = "ok" /\ (Raised(x.s) \/ (written /\ x.w = "raise")
                                      \/ (restore /\ Raised(x.r)))
        IN  /\ (~valid => x.g = "ok")
            /\ (~(valid /\ x.g = "ok") => x.s = "ok")
            /\ (~(valid /\ written) => x.w = "fail")
            /\ (x.w = "ok" => Responds(ids, codes, id, rate))
            /\ (~(valid /\ restore) => x.r = "ok")
            /\ (~(valid /\ handler) => x.e = "ok")}

\* what callers pass
MotorInputs   == {1, 2}
NewBaudInputs == {57600, 4000000, 19200}
NewIdInputs   == {0 - 1, 0, 1, 2, 3, 252, 253}

ChangeMotorBaudrate ==
    /\ pc = "idle"
    /\ \E motor_id \in MotorInputs, current_baud \in BaudInputs, new_baud \in NewBaudInputs :
        \E x \in ChangeScripts(devId, devBaud, motor_id, current_baud,
                               new_baud \in DOMAIN BAUDRATE_MAP) :
            LET res == ChangeMotorBaudrateRun(linkBaud, devId, devBaud, motor_id,
                           current_baud, new_baud, x.g, x.s, x.w, x.r, x.e)
            IN  /\ linkBaud' = res.link
                /\ devId' = res.ids
                /\ devBaud' = res.codes
                /\ ret' = res.ret
                /\ trace' = res.trace
                /\ op' = [name |-> "change_motor_baudrate",
                          args |-> <<motor_id, current_baud, new_baud>>]
                /\ startBaud' = linkBaud
                /\ startId' = devId
    /\ NoLoop
    /\ UNCHANGED fakeVars

ChangeMotorId ==
    /\ pc = "idle"
    /\ \E current_id \in MotorInputs, new_id \in NewIdInputs, baudrate \in BaudInputs :
        \E x \in ChangeScripts(devId, devBaud, current_id, baudrate,
                               new_id >= 0 /\ new_id <= MAX_ID) :
            LET res == ChangeMotorIdRun(linkBaud, devId, devBaud, current_id,
                           new_id, baudrate, x.g, x.s, x.w, x.r, x.e)
            IN  /\ linkBaud' = res.link
                /\ devId' = res.ids
                /\ devBaud' = res.codes
                /\ ret' = res.ret
                /\ trace' = res.trace
                /\ op' = [name |-> "change_motor_id",
                          args |-> <<current_id, new_id, baudrate>>]
                /\ startBaud' = linkBaud
                /\ startId' = devId
    /\ NoLoop
    /\ UNCHANGED fakeVars

----------------------------------------------------------------------------
(* U2D2Interface.change_motors_id: the validation, then one step per entry *)

\* an id_mapping is a dict: a list of (current_id, new_id) in insertion
\* order whose current IDs are distinct
BatchNewIdInputs == {0 - 1, 1, 2, 3, 253}

IdMappings ==
    {m \in UNION {[1..k -> MotorInputs \X BatchNewIdInputs] : k \in 0..MaxBatch} :
        \A i, j \in 1..Len(m) : i # j => m[i][1] # m[j][1]}

NewIds(id_mapping) == [i \in 1..Len(id_mapping) |-> id_mapping[i][2]]

\* change_motors_id whose duplicate check is missing
IdMappingVerdictNoDuplicateCheck(id_mapping) ==
    LET new_ids == NewIds(id_mapping)
        Bad(new_id) == new_id < 0 \/ new_id > MAX_ID
        invalid_ids == SelectSeq(new_ids, Bad)
    IN  IF Len(id_mapping) = 0 THEN "empty"
        ELSE IF invalid_ids # <<>> THEN "invalid"
        ELSE "ok"

\* the checks before the loop: what makes the method return {} at once
IdMappingVerdict(id_mapping) ==
    LET new_ids == NewIds(id_mapping)
        Bad(new_id) == new_id < 0 \/ new_id > MAX_ID
        invalid_ids == SelectSeq(new_ids, Bad)
    IN  IF Len(id_mapping) = 0 THEN "empty"
        ELSE IF invalid_ids # <<>> THEN "invalid"
        ELSE IF Len(new_ids) # Cardinality({new_ids[i] : i \in 1..Len(new_ids)})
        THEN "duplicate"
        ELSE "ok"

ChangeMotorsIdBegin ==
    /\ pc = "idle"
    /\ \E id_mapping \in IdMappings, baudrate \in BaudInputs :
        /\ op' = [name |-> "change_motors_id", args |-> <<id_mapping, baudrate>>]
        /\ IF IdMappingVerdict(id_mapping) = "ok"
           THEN pc' = "change_motors_id" /\ queue' = id_mapping
           ELSE pc' = "returned" /\ queue' = <<>>
    /\ ret' = <<>>
    /\ acc' = <<>>
    /\ trace' = <<>>
    /\ busUsed' = FALSE
    /\ idx' = 0
    /\ hist' = <<>>
    /\ startBaud' = linkBaud
    /\ startId' = devId
    /\ UNCHANGED hwVars
    /\ UNCHANGED fakeVars

\* a loop that gives up at the first motor whose change fails
ChangeMotorsIdStepAbortOnFailure ==
    /\ pc = "change_motors_id"
    /\ LET current_id == queue[1][1]
           new_id     == queue[1][2]
           baudrate   == op.args[2]
           last       == Len(queue) = 1
           Finish(results) ==
               /\ acc' = results
               /\ queue' = Tail(queue)
               /\ pc' = IF last THEN "returned" ELSE pc
               /\ ret' = IF last THEN results ELSE ret
       IN  IF current_id = new_id
           THEN /\ Finish((current_id :> TRUE) @@ acc)
                /\ trace' = <<>>
                /\ UNCHANGED <<hwVars, busUsed>>
           ELSE \E x \in ChangeScripts(devId, devBaud, current_id, baudrate, TRUE) :
                LET res == ChangeMotorIdRun(linkBaud, devId, devBaud, current_id,
                               new_id, baudrate, x.g, x.s, x.w, x.r, x.e)
                IN  /\ acc' = (current_id :> res.ret) @@ acc
                    /\ queue' = Tail(queue)
                    /\ pc' = IF last \/ ~res.ret THEN "returned" ELSE pc
                    /\ ret' = IF last \/ ~res.ret THEN acc' ELSE ret
                    /\ linkBaud' = res.link
                    /\ devId' = res.ids
                    /\ devBaud' = res.codes
                    /\ trace' = res.trace
                    /\ busUsed' = (busUsed \/ res.trace # <<>>)
    /\ UNCHANGED <<op, startBaud, startId, idx, hist>>
    /\ UNCHANGED fakeVars

\* a loop that sends every entry to change_motor_id, the unchanged ones too
ChangeMotorsIdStepNoSkip ==
    /\ pc = "change_motors_id"
    /\ LET current_id == queue[1][1]
           new_id     == queue[1][2]
           baudrate   == op.args[2]
           last       == Len(queue) = 1
           Finish(results) ==
               /\ acc' = results
               /\ queue' = Tail(queue)
               /\ pc' = IF last THEN "returned" ELSE pc
               /\ ret' = IF last THEN results ELSE ret
       IN  IF FALSE
           THEN /\ Finish((current_id :> TRUE) @@ acc)
                /\ trace' = <<>>
                /\ UNCHANGED <<hwVars, busUsed>>
           ELSE \E x \in ChangeScripts(devId, devBaud, current_id, baudrate, TRUE) :
                LET res == ChangeMotorIdRun(linkBaud, devId, devBaud, current_id,
                               new_id, baudrate, x.g, x.s, x.w, x.r, x.e)
                IN  /\ Finish((current_id :> res.ret) @@ acc)
                    /\ linkBaud' = res.link
                    /\ devId' = res.ids
                    /\ devBaud' = res.codes
                    /\ trace' = res.trace
                    /\ busUsed' = (busUsed \/ res.trace # <<>>)
    /\ UNCHANGED <<op, startBaud, startId, idx, hist>>
    /\ UNCHANGED fakeVars

\* the loop body for the entry at the head of the queue; `trace` holds the
\* transport calls made for that entry
ChangeMotorsIdStep ==
    /\ pc = "change_motors_id"
    /\ LET current_id == queue[1][1]
           new_id     == queue[1][2]
           baudrate   == op.args[2]
           last       == Len(queue) = 1
           Finish(results) ==
               /\ acc' = results
               /\ queue' = Tail(queue)
               /\ pc' = IF last THEN "returned" ELSE pc
               /\ ret' = IF last THEN results ELSE ret
       IN  IF current_id = new_id
           THEN /\ Finish((current_id :> TRUE) @@ acc)
                /\ trace' = <<>>
                /\ UNCHANGED <<hwVars, busUsed>>
           ELSE \E x \in ChangeScripts(devId, devBaud, current_id, baudrate, TRUE) :
                LET res == ChangeMotorIdRun(linkBaud, devId, devBaud, current_id,
                               new_id, baudrate, x.g, x.s, x.w, x.r, x.e)
                IN  /\ Finish((current_id :> res.ret) @@ acc)
                    /\ linkBaud' = res.link
                    /\ devId' = res.ids
                    /\ devBaud' = res.codes
                    /\ trace' = res.trace
                    /\ busUsed' = (busUsed \/ res.trace # <<>>)
    /\ UNCHANGED <<op, startBaud, startId, idx, hist>>
    /\ UNCHANGED fakeVars

----------------------------------------------------------------------------
(* U2D2Interface.change_motors_baudrate: one step per entry *)

\* a motor_baud_map is a dict: a list of (motor_id, current_baud) in
\* insertion order whose motor IDs are distinct
\* the current rates a map names: the two of the bus and one outside the table
MapBaudInputs == BaudInputs \cup {19200}

MotorBaudMaps ==
    {m \in UNION {[1..k -> MotorInputs \X MapBaudInputs] : k \in 0..MaxBatch} :
        \A i, j \in 1..Len(m) : i # j => m[i][1] # m[j][1]}

ChangeMotorsBaudrateBegin ==
    /\ pc = "idle"
    /\ \E motor_baud_map \in MotorBaudMaps, new_baud \in NewBaudInputs :
        /\ op' = [name |-> "change_motors_baudrate", args |-> <<motor_baud_map, new_baud>>]
        /\ IF Len(motor_baud_map) # 0
           THEN pc' = "change_motors_baudrate" /\ queue' = motor_baud_map
           ELSE pc' = "returned" /\ queue' = <<>>
    /\ ret' = <<>>
    /\ acc' = <<>>
    /\ trace' = <<>>
    /\ busUsed' = FALSE
    /\ idx' = 0
    /\ hist' = <<>>
    /\ startBaud' = linkBaud
    /\ startId' = devId
    /\ UNCHANGED hwVars
    /\ UNCHANGED fakeVars

\* the loop body for the entry at the head of the queue; `trace` holds the
\* transport calls made for that entry
ChangeMotorsBaudrateStep ==
    /\ pc = "change_motors_baudrate"
    /\ LET motor_id     == queue[1][1]
           current_baud == queue[1][2]
           new_baud     == op.args[2]
           last         == Len(queue) = 1
           Finish(results) ==
               /\ acc' = results
               /\ queue' = Tail(queue)
               /\ pc' = IF last THEN "returned" ELSE pc
               /\ ret' = IF last THEN results ELSE ret
       IN  IF current_baud = new_baud
           THEN /\ Finish((motor_id :> TRUE) @@ acc)
                /\ trace' = <<>>
                /\ UNCHANGED <<hwVars, busUsed>>
           ELSE \E x \in ChangeScripts(devId, devBaud, motor_id, current_baud,
                                       new_baud \in DOMAIN BAUDRATE_MAP) :
                LET res == ChangeMotorBaudrateRun(linkBaud, devId, devBaud, motor_id,
                               current_baud, new_baud, x.g, x.s, x.w, x.r, x.e)
                IN  /\ Finish((motor_id :> res.ret) @@ acc)
                    /\ linkBaud' = res.link
                    /\ devId' = res.ids
                    /\ devBaud' = res.codes
                    /\ trace' = res.trace
                    /\ busUsed' = (busUsed \/ res.trace # <<>>)
    /\ UNCHANGED <<op, startBaud, startId, idx, hist>>
    /\ UNCHANGED fakeVars

----------------------------------------------------------------------------
(* FakeU2D2Interface.change_motors_id: no link, no device *)

FakeChangeMotorId(current_id, new_id, baudrate) == ~(new_id < 0 \/ new_id > MAX_ID)

FakeChangeMotorsIdRun(id_mapping, baudrate) ==
    LET new_ids == NewIds(id_mapping)
        Bad(new_id) == new_id < 0 \/ new_id > MAX_ID
        invalid_ids == SelectSeq(new_ids, Bad)
        entry(current_id) ==
            CHOOSE i \in 1..Len(id_mapping) : id_mapping[i][1] = current_id
    IN  IF Len(id_mapping) = 0 THEN <<>>
        ELSE IF invalid_ids # <<>> THEN <<>>
        ELSE IF Len(new_ids) # Cardinality({new_ids[i] : i \in 1..Len(new_ids)})
        THEN <<>>
        ELSE [current_id \in {id_mapping[i][1] : i \in 1..Len(id_mapping)} |->
                IF current_id = id_mapping[entry(current_id)][2] THEN TRUE
                ELSE FakeChangeMotorId(current_id, id_mapping[entry(current_id)][2],
                                       baudrate)]

FakeChangeMotorsId ==
    /\ pc = "idle"
    /\ \E id_mapping \in IdMappings, baudrate \in BaudInputs :
        /\ op' = [name |-> "fake_change_motors_id", args |-> <<id_mapping, baudrate>>]
        /\ ret' = FakeChangeMotorsIdRun(id_mapping, baudrate)
    /\ trace' = <<>>
    /\ startBaud' = linkBaud
    /\ startId' = devId
    /\ NoLoop
    /\ UNCHANGED hwVars
    /\ UNCHANGED fakeVars

----------------------------------------------------------------------------
(* Register values and their byte strings.  A value the transport hands    *)
(* over is an unsigned integer of up to 32 bits, kept as two 16-bit halves: *)
(* [hi, lo] stands for hi * 65536 + lo.                                      *)

U32(hi, lo) == [hi |-> hi, lo |-> lo]

\* the i-th byte (from 0) of the little-endian form of v
ByteOf(v, i) ==
    IF i = 0 THEN v.lo % 256
    ELSE IF i = 1 THEN v.lo \div 256
    ELSE IF i = 2 THEN v.hi % 256
    ELSE IF i = 3 THEN v.hi \div 256
    ELSE 0

\* struct.pack('<H', v)
PackH(v) == <<v.lo % 256, v.lo \div 256>>
\* struct.pack('<I', v)
PackI(v) == <<v.lo % 256, v.lo \div 256, v.hi % 256, v.hi \div 256>>
\* v.to_bytes(length, 'little')
ToBytes(v, length) == [i \in 1..length |-> ByteOf(v, i - 1)]
\* b'\x00' * length
ZeroBytes(length) == [i \in 1..length |-> 0]

\* struct.unpack('<H', data[:2])[0]
UnpackH(data) == data[1] + 256 * data[2]
\* struct.unpack('<I', data[:4])[0]
UnpackI(data) == U32(data[3] + 256 * data[4], data[1] + 256 * data[2])

_parse_2byte_signed(data) ==
    IF Len(data) >= 2
    THEN LET value == UnpackH(data)
         IN  IF value > 32767 THEN value - 65536 ELSE value
    ELSE 0

\* value > 2147483647 is hi > 32767; value - 4294967296 is (hi - 65536, lo)
_parse_4byte_signed(data) ==
    IF Len(data) >= 4
    THEN LET value == UnpackI(data)
         IN  IF value.hi > 32767
             THEN (value.hi - 65536) * 65536 + value.lo
             ELSE value.hi * 65536 + value.lo
    ELSE 0

parse_position(data) == _parse_4byte_signed(data)
parse_velocity(data) == _parse_4byte_signed(data)
parse_current(data) == _parse_2byte_signed(data)

----------------------------------------------------------------------------
(* U2D2Interface.bulk_read and the bulk readers built on it *)

\* the (motor_id, address, length) triples a caller asks for
ReadTriples ==
    {<<1, ADDR_PRESENT_POSITION, LEN_PRESENT_POSITION>>,
     <<2, ADDR_PRESENT_POSITION, LEN_PRESENT_POSITION>>,
     <<1, ADDR_PRESENT_CURRENT, LEN_PRESENT_CURRENT>>,
     <<1, ADDR_PRESENT_POSITION, 2>>,
     <<2, 64, 1>>}

SeqsUpTo(S, n) == UNION {[1..k -> S] : k \in 0..n}

\* the values a register of that length is read as: 0, a positive one and
\* the pattern of a negative one
RegisterValues(length) ==
    IF length = 4 THEN {U32(0, 0), U32(0, 2048), U32(65535, 65535)}
    ELSE IF length = 2 THEN {U32(0, 0), U32(0, 65486)}
    ELSE {U32(0, 0), U32(0, 1)}

\* what one bulk transaction can meet: txRxPacket succeeds or fails; after a
\* success each entry is available or not, and only a device that answers
\* at its ID and the link's rate makes its entry available
BulkScripts(ids, codes, link, read_params) ==
    LET n == Len(read_params)
    IN  {x \in [c : {"ok", "fail"},
                v : [1..n -> BOOLEAN],
                d : [1..n -> UNION {RegisterValues(l) : l \in {1, 2, 4}}]] :
            \A i \in 1..n :
                /\ x.v[i] => /\ x.c = "ok"
                             /\ Responds(ids, codes, read_params[i][1], link)
                             /\ x.d[i] \in RegisterValues(read_params[i][3])
                /\ ~x.v[i] => x.d[i] = U32(0, 0)}

\* the last entry of the request that writes the key of entry i
LastWithKey(read_params, i) ==
    \A j \in (i + 1)..Len(read_params) :
        << read_params[j][1], read_params[j][2] >> # << read_params[i][1], read_params[i][2] >>

BulkKeys(read_params) ==
    {<< read_params[i][1], read_params[i][2] >> : i \in 1..Len(read_params)}

BulkTrace(read_params, c, v) ==
    <<Call("txRxPacket", <<>>, c)>> \o
    (IF c = "ok"
     THEN [i \in 1..Len(read_params) |->
             Call("isAvailable", read_params[i], IF v[i] THEN "yes" ELSE "no")]
     ELSE <<>>)

\* a bulk_read that leaves an unavailable entry out of the result
BulkReadRunSkipUnavailable(read_params, c, v, d) ==
    [trace |-> BulkTrace(read_params, c, v),
     ret   |-> IF c # "ok" THEN <<>>
               ELSE [key \in {k \in BulkKeys(read_params) :
                                \E i \in 1..Len(read_params) :
                                    /\ << read_params[i][1], read_params[i][2] >> = k
                                    /\ v[i]} |->
                       LET i == CHOOSE i \in 1..Len(read_params) :
                                   /\ << read_params[i][1], read_params[i][2] >> = key
                                   /\ v[i]
                       IN  ToBytes(d[i], read_params[i][3])]]

\* a bulk_read that answers a failed transaction with zero bytes for every key
BulkReadRunZerosOnFailure(read_params, c, v, d) ==
    [trace |-> BulkTrace(read_params, c, v),
     ret   |-> [key \in BulkKeys(read_params) |->
                   LET i == CHOOSE i \in 1..Len(read_params) :
                               /\ << read_params[i][1], read_params[i][2] >> = key
                               /\ LastWithKey(read_params, i)
                       length == read_params[i][3]
                   IN  IF c = "ok" /\ v[i] THEN ToBytes(d[i], length)
                       ELSE ZeroBytes(length)]]

\* bulk_read(read_params) when the transaction ends with c, entry i is
\* available iff v[i] and getData hands over d[i]
BulkReadRun(read_params, c, v, d) ==
    [trace |-> BulkTrace(read_params, c, v),
     ret   |-> IF c # "ok" THEN <<>>
               ELSE [key \in BulkKeys(read_params) |->
                       LET i == CHOOSE i \in 1..Len(read_params) :
                                   /\ << read_params[i][1], read_params[i][2] >> = key
                                   /\ LastWithKey(read_params, i)
                           length == read_params[i][3]
                       IN  IF v[i]
                           THEN IF length = 2 THEN PackH(d[i])
                                ELSE IF length = 4 THEN PackI(d[i])
                                ELSE ToBytes(d[i], length)
                           ELSE ZeroBytes(length)]]

BulkRead ==
    /\ pc = "idle"
    /\ \E read_params \in SeqsUpTo(ReadTriples, MaxBulk) :
        \E x \in BulkScripts(devId, devBaud, linkBaud, read_params) :
            LET res == BulkReadRun(read_params, x.c, x.v, x.d)
            IN  /\ ret' = res.ret
                /\ trace' = res.trace
                /\ op' = [name |-> "bulk_read", args |-> <<read_params>>]
    /\ startBaud' = linkBaud
    /\ startId' = devId
    /\ NoLoop
    /\ UNCHANGED hwVars
    /\ UNCHANGED fakeVars

\* results.get(key, default)
DictGet(results, key, default) ==
    IF key \in DOMAIN results THEN results[key] ELSE default

\* the lists of motor IDs the bulk readers are given
MotorLists == {l \in SeqsUpTo({1, 2}, MaxBulk) : \A i, j \in 1..Len(l) : l[i] = l[j] => i = j}

ElemsOf(l) == {l[i] : i \in 1..Len(l)}

ReadParamsFor(motor_ids, address, length) ==
    [i \in 1..Len(motor_ids) |-> <<motor_ids[i], address, length>>]

BulkReadPositionsRun(motor_ids, x) ==
    LET read_params == ReadParamsFor(motor_ids, ADDR_PRESENT_POSITION, LEN_PRESENT_POSITION)
        res == BulkReadRun(read_params, x.c, x.v, x.d)
    IN  [trace |-> res.trace,
         ret   |-> [motor_id \in ElemsOf(motor_ids) |->
                      parse_position(DictGet(res.ret, <<motor_id, ADDR_PRESENT_POSITION>>,
                                             <<0, 0, 0, 0>>))]]

BulkReadVelocitiesRun(motor_ids, x) ==
    LET read_params == ReadParamsFor(motor_ids, ADDR_PRESENT_VELOCITY, LEN_PRESENT_VELOCITY)
        res == BulkReadRun(read_params, x.c, x.v, x.d)
    IN  [trace |-> res.trace,
         ret   |-> [motor_id \in ElemsOf(motor_ids) |->
                      parse_velocity(DictGet(res.ret, <<motor_id, ADDR_PRESENT_VELOCITY>>,
                                             <<0, 0, 0, 0>>))]]

BulkReadCurrentsRun(motor_ids, x) ==
    LET read_params == ReadParamsFor(motor_ids, ADDR_PRESENT_CURRENT, LEN_PRESENT_CURRENT)
        res == BulkReadRun(read_params, x.c, x.v, x.d)
    IN  [trace |-> res.trace,
         ret   |-> [motor_id \in ElemsOf(motor_ids) |->
                      parse_current(DictGet(res.ret, <<motor_id, ADDR_PRESENT_CURRENT>>,
                                            <<0, 0>>))]]

BulkReadStatesRun(motor_ids, xp, xv, xc) ==
    LET positions  == BulkReadPositionsRun(motor_ids, xp)
        velocities == BulkReadVelocitiesRun(motor_ids, xv)
        currents   == BulkReadCurrentsRun(motor_ids, xc)
    IN  [trace |-> positions.trace \o velocities.trace \o currents.trace,
         ret   |-> [motor_id \in ElemsOf(motor_ids) |->
                      [position |-> positions.ret[motor_id],
                       velocity |-> velocities.ret[motor_id],
                       current  |-> currents.ret[motor_id]]]]

BulkReadPositions ==
    /\ pc = "idle"
    /\ \E motor_ids \in MotorLists :
        \E x \in BulkScripts(devId, devBaud, linkBaud,
                 ReadParamsFor(motor_ids, ADDR_PRESENT_POSITION, LEN_PRESENT_POSITION)) :
            LET res == BulkReadPositionsRun(motor_ids, x)
            IN  /\ ret' = res.ret
                /\ trace' = res.trace
                /\ op' = [name |-> "bulk_read_positions", args |-> <<motor_ids>>]
    /\ startBaud' = linkBaud
    /\ startId' = devId
    /\ NoLoop
    /\ UNCHANGED hwVars
    /\ UNCHANGED fakeVars

BulkReadVelocities ==
    /\ pc = "idle"
    /\ \E motor_ids \in MotorLists :
        \E x \in BulkScripts(devId, devBaud, linkBaud,
                 ReadParamsFor(motor_ids, ADDR_PRESENT_VELOCITY, LEN_PRESENT_VELOCITY)) :
            LET res == BulkReadVelocitiesRun(motor_ids, x)
            IN  /\ ret' = res.ret
                /\ trace' = res.trace
                /\ op' = [name |-> "bulk_read_velocities", args |-> <<motor_ids>>]
    /\ startBaud' = linkBaud
    /\ startId' = devId
    /\ NoLoop
    /\ UNCHANGED hwVars
    /\ UNCHANGED fakeVars

BulkReadCurrents ==
    /\ pc = "idle"
    /\ \E motor_ids \in MotorLists :
        \E x \in BulkScripts(devId, devBaud, linkBaud,
                 ReadParamsFor(motor_ids, ADDR_PRESENT_CURRENT, LEN_PRESENT_CURRENT)) :
            LET res == BulkReadCurrentsRun(motor_ids, x)
            IN  /\ ret' = res.ret
                /\ trace' = res.trace
                /\ op' = [name |-> "bulk_read_currents", args |-> <<motor_ids>>]
    /\ startBaud' = linkBaud
    /\ startId' = devId
    /\ NoLoop
    /\ UNCHANGED hwVars
    /\ UNCHANGED fakeVars

BulkReadStates ==
    /\ pc = "idle"
    /\ \E motor_ids \in MotorLists :
        \E xp \in BulkScripts(devId, devBaud, linkBaud,
                  ReadParamsFor(motor_ids, ADDR_PRESENT_POSITION, LEN_PRESENT_POSITION)),
           xv \in BulkScripts(devId, devBaud, linkBaud,
                  ReadParamsFor(motor_ids, ADDR_PRESENT_VELOCITY, LEN_PRESENT_VELOCITY)),
           xc \in BulkScripts(devId, devBaud, linkBaud,
                  ReadParamsFor(motor_ids, ADDR_PRESENT_CURRENT, LEN_PRESENT_CURRENT)) :
            LET res == BulkReadStatesRun(motor_ids, xp, xv, xc)
            IN  /\ ret' = res.ret
                /\ trace' = res.trace
                /\ op' = [name |-> "bulk_read_states", args |-> <<motor_ids>>]
    /\ startBaud' = linkBaud
    /\ startId' = devId
    /\ NoLoop
    /\ UNCHANGED hwVars
    /\ UNCHANGED fakeVars

----------------------------------------------------------------------------
(* FakeU2D2Interface: the simulated backend.  Positions and velocities are  *)
(* floats in the code; here they are fixed-point numbers, a position p      *)
(* being stored as the integer p * Scale, and a product is cut off towards  *)
(* zero at that resolution.  Goals and currents are plain integers.          *)

Scale == 10 * 100

\* Optional[...]: None, or the value
None == <<>>
Some(x) == <<x>>

\* d.get(key, default) is DictGet; d[key] = value is DictPut
DictPut(d, key, value) ==
    [k \in (DOMAIN d) \cup {key} |-> IF k = key THEN value ELSE d[k]]

Abs(x) == IF x < 0 THEN 0 - x ELSE x
Min2(x, y) == IF x < y THEN x ELSE y
Max2(x, y) == IF x > y THEN x ELSE y
\* x / n cut off towards zero
TruncDiv(x, n) == IF x >= 0 THEN x \div n ELSE 0 - ((0 - x) \div n)
\* int(x) of a fixed-point x
PyInt(x) == TruncDiv(x, Scale)

\* the register names of STATE_ADDRESS_MAP
STATE_ADDRESS_MAP_keys == {"position", "velocity", "current"}

_initialize_motor_state(f, motor_id) ==
    [f EXCEPT
        !._motor_states    = DictPut(@, motor_id,
                                [position |-> 0, velocity |-> 0, current |-> 0]),
        !._motor_modes     = DictPut(@, motor_id, "position"),
        !._torque_enabled  = DictPut(@, motor_id, FALSE),
        !._goal_positions  = DictPut(@, motor_id, 0),
        !._goal_currents   = DictPut(@, motor_id, 0),
        !._velocity_limits = DictPut(@, motor_id, 100),
        !._current_limits  = DictPut(@, motor_id, 1000),
        !._pid_gains       = DictPut(@, motor_id, [p |-> 0, i |-> 0, d |-> 0])]

\* for motor_id in motor_ids[k..]: if motor_id not in self._motor_states: initialize
RECURSIVE InitializeMissing(_, _, _)
InitializeMissing(f, motor_ids, k) ==
    IF k > Len(motor_ids) THEN f
    ELSE InitializeMissing(
            IF motor_ids[k] \in DOMAIN f._motor_states THEN f
            ELSE _initialize_motor_state(f, motor_ids[k]),
            motor_ids, k + 1)

\* FakeU2D2Interface(motor_ids=motor_ids)
FakeU2D2Interface(motor_ids) ==
    LET empty == [motor_ids        |-> motor_ids,
                  _motor_states    |-> <<>>,
                  _motor_modes     |-> <<>>,
                  _torque_enabled  |-> <<>>,
                  _goal_positions  |-> <<>>,
                  _goal_currents   |-> <<>>,
                  _velocity_limits |-> <<>>,
                  _current_limits  |-> <<>>,
                  _pid_gains       |-> <<>>]
    IN  IF motor_ids # None /\ motor_ids[1] # <<>>
        THEN InitializeMissing(empty, motor_ids[1], 1)
        ELSE empty

\* a simulation step that moves a motor whether or not its torque is enabled
SimulateMotorIgnoreTorque(f, motor_id, drift) ==
    LET st == f._motor_states[motor_id]
        current_pos == st.position
        goal_pos == IF motor_id \in DOMAIN f._goal_positions
                    THEN f._goal_positions[motor_id] * Scale
                    ELSE current_pos
        mode == DictGet(f._motor_modes, motor_id, "None")
    IN  IF mode = "position"
        THEN LET error == goal_pos - current_pos
             IN  IF Abs(error) > 5 * Scale
                 THEN LET velocity == Min2(Max2(TruncDiv(error, 10), 0 - 50 * Scale),
                                           50 * Scale)
                      IN  [st EXCEPT !.velocity = velocity,
                                     !.position = @ + TruncDiv(velocity, 100)]
                 ELSE [st EXCEPT !.velocity = 0]
        ELSE IF mode = "current"
        THEN [st EXCEPT !.current  = DictGet(f._goal_currents, motor_id, 0),
                        !.position = @ + drift * Scale]
        ELSE st

\* a simulation step that integrates the velocity over 100 time units
SimulateMotorCoarseStep(f, motor_id, drift) ==
    LET st == f._motor_states[motor_id]
    IN  IF ~DictGet(f._torque_enabled, motor_id, FALSE) THEN st
        ELSE
        LET current_pos == st.position
            goal_pos == IF motor_id \in DOMAIN f._goal_positions
                        THEN f._goal_positions[motor_id] * Scale
                        ELSE current_pos
            mode == DictGet(f._motor_modes, motor_id, "None")
        IN  IF mode = "position"
            THEN LET error == goal_pos - current_pos
                 IN  IF Abs(error) > 5 * Scale
                     THEN LET velocity == Min2(Max2(TruncDiv(error, 10), 0 - 50 * Scale),
                                               50 * Scale)
                          IN  [st EXCEPT !.velocity = velocity,
                                         !.position = @ + velocity * 100]
                     ELSE [st EXCEPT !.velocity = 0]
            ELSE IF mode = "current"
            THEN [st EXCEPT !.current  = DictGet(f._goal_currents, motor_id, 0),
                            !.position = @ + drift * Scale]
            ELSE st

\* a simulation step whose dead-band leaves the velocity as it was
SimulateMotorDeadBandKeepsVelocity(f, motor_id, drift) ==
    LET st == f._motor_states[motor_id]
    IN  IF ~DictGet(f._torque_enabled, motor_id, FALSE) THEN st
        ELSE
        LET current_pos == st.position
            goal_pos == IF motor_id \in DOMAIN f._goal_positions
                        THEN f._goal_positions[motor_id] * Scale
                        ELSE current_pos
            mode == DictGet(f._motor_modes, motor_id, "None")
        IN  IF mode = "position"
            THEN LET error == goal_pos - current_pos
                 IN  IF Abs(error) > 5 * Scale
                     THEN LET velocity == Min2(Max2(TruncDiv(error, 10), 0 - 50 * Scale),
                                               50 * Scale)
                          IN  [st EXCEPT !.velocity = velocity,
                                         !.position = @ + TruncDiv(velocity, 100)]
                     ELSE st
            ELSE IF mode = "current"
            THEN [st EXCEPT !.current  = DictGet(f._goal_currents, motor_id, 0),
                            !.position = @ + drift * Scale]
            ELSE st

\* one motor of _simulate_motor_behavior; drift is what random.randint(-1, 1) gave
SimulateMotor(f, motor_id, drift) ==
    LET st == f._motor_states[motor_id]
    IN  IF ~DictGet(f._torque_enabled, motor_id, FALSE) THEN st
        ELSE
        LET current_pos == st.position
            goal_pos == IF motor_id \in DOMAIN f._goal_positions
                        THEN f._goal_positions[motor_id] * Scale
                        ELSE current_pos
            mode == DictGet(f._motor_modes, motor_id, "None")
        IN  IF mode = "position"
            THEN LET error == goal_pos - current_pos
                 IN  IF Abs(error) > 5 * Scale
                     THEN LET velocity == Min2(Max2(TruncDiv(error, 10), 0 - 50 * Scale),
                                               50 * Scale)
                          IN  [st EXCEPT !.velocity = velocity,
                                         !.position = @ + TruncDiv(velocity, 100)]
                     ELSE [st EXCEPT !.velocity = 0]
            ELSE IF mode = "current"
            THEN [st EXCEPT !.current  = DictGet(f._goal_currents, motor_id, 0),
                            !.position = @ + drift * Scale]
            ELSE st

_simulate_motor_behavior(f, drift) ==
    [f EXCEPT !._motor_states =
        [motor_id \in DOMAIN @ |-> SimulateMotor(f, motor_id, drift[motor_id])]]

\* the motors whose step draws a random number
Drifting(f) ==
    {motor_id \in DOMAIN f._motor_states :
        /\ DictGet(f._torque_enabled, motor_id, FALSE)
        /\ DictGet(f._motor_modes, motor_id, "None") = "current"}

\* what random.randint can give the motors of one step
Drifts(f) ==
    {drift \in [DOMAIN f._motor_states -> {0 - 1, 0, 1}] :
        \A motor_id \in DOMAIN drift : motor_id \notin Drifting(f) => drift[motor_id] = 0}

\* how a method of the simulated backend ends
Returns(f, value) == [fake |-> f, ret |-> value, exc |-> "none"]
Raises(f, e) == [fake |-> f, ret |-> <<>>, exc |-> e]

ZeroState == [position |-> 0, velocity |-> 0, current |-> 0]

init_group_sync_read(f, motor_ids) ==
    Returns(InitializeMissing(f, motor_ids, 1), <<>>)

sync_read_state(f, drift) ==
    IF f.motor_ids = None THEN Raises(f, "RuntimeError")
    ELSE
    LET g == _simulate_motor_behavior(f, drift)
        ids == g.motor_ids[1]
        StateOf(i) == DictGet(g._motor_states, ids[i], ZeroState)
        positions  == [i \in 1..Len(ids) |-> PyInt(StateOf(i).position)]
        velocities == [i \in 1..Len(ids) |-> PyInt(StateOf(i).velocity)]
        currents   == [i \in 1..Len(ids) |-> StateOf(i).current]
    IN  Returns(g, <<positions, velocities, currents>>)

\* for motor_id, position in zip(self.motor_ids, positions), from entry k on
RECURSIVE WriteGoalPositions(_, _, _, _)
WriteGoalPositions(f, motor_ids, positions, k) ==
    IF k > Len(motor_ids) \/ k > Len(positions) THEN f
    ELSE LET g == [f EXCEPT !._goal_positions = DictPut(@, motor_ids[k], positions[k])]
         IN  WriteGoalPositions(
                IF motor_ids[k] \in DOMAIN g._motor_states THEN g
                ELSE _initialize_motor_state(g, motor_ids[k]),
                motor_ids, positions, k + 1)

RECURSIVE WriteGoalCurrents(_, _, _, _)
WriteGoalCurrents(f, motor_ids, currents, k) ==
    IF k > Len(motor_ids) \/ k > Len(currents) THEN f
    ELSE LET g == [f EXCEPT !._goal_currents = DictPut(@, motor_ids[k], currents[k])]
         IN  WriteGoalCurrents(
                IF motor_ids[k] \in DOMAIN g._motor_states THEN g
                ELSE _initialize_motor_state(g, motor_ids[k]),
                motor_ids, currents, k + 1)

\* a sync_write_positions that checks the length after it has written
sync_write_positions_check_last(f, positions) ==
    IF f.motor_ids = None THEN Raises(f, "RuntimeError")
    ELSE IF Len(positions) # Len(f.motor_ids[1])
    THEN Raises(WriteGoalPositions(f, f.motor_ids[1], positions, 1), "ValueError")
    ELSE Returns(WriteGoalPositions(f, f.motor_ids[1], positions, 1), <<>>)

sync_write_positions(f, positions) ==
    IF f.motor_ids = None THEN Raises(f, "RuntimeError")
    ELSE IF Len(positions) # Len(f.motor_ids[1]) THEN Raises(f, "ValueError")
    ELSE Returns(WriteGoalPositions(f, f.motor_ids[1], positions, 1), <<>>)

sync_write_currents(f, currents) ==
    IF f.motor_ids = None THEN Raises(f, "RuntimeError")
    ELSE IF Len(currents) # Len(f.motor_ids[1]) THEN Raises(f, "ValueError")
    ELSE Returns(WriteGoalCurrents(f, f.motor_ids[1], currents, 1), <<>>)

init_specific_group_sync_read(f, state) ==
    IF state \notin STATE_ADDRESS_MAP_keys THEN Raises(f, "ValueError")
    ELSE Returns(f, <<>>)

sync_read_specific(f, state, drift) ==
    IF f.motor_ids = None THEN Raises(f, "RuntimeError")
    ELSE IF state \notin STATE_ADDRESS_MAP_keys THEN Raises(f, "ValueError")
    ELSE
    LET g == _simulate_motor_behavior(f, drift)
        ids == g.motor_ids[1]
        StateOf(i) == DictGet(g._motor_states, ids[i], ZeroState)
        state_value(i) == IF state = "position" THEN PyInt(StateOf(i).position)
                          ELSE IF state = "velocity" THEN PyInt(StateOf(i).velocity)
                          ELSE StateOf(i).current
    IN  Returns(g, [i \in 1..Len(ids) |-> state_value(i)])

enable_torque(f, motor_id) ==
    Returns([f EXCEPT !._torque_enabled = DictPut(@, motor_id, TRUE)], <<>>)

set_motor_mode(f, motor_id, mode) ==
    IF mode \notin {"position", "current"} THEN Raises(f, "ValueError")
    ELSE Returns([f EXCEPT !._motor_modes = DictPut(@, motor_id, mode)], <<>>)

\* the inputs of the simulated backend
GroupInputs == {None, Some(<<>>), Some(<<1>>), Some(<<1, 2>>)}
InitGroupInputs == {<<1, 2>>}
\* the motor whose torque and mode the caller sets
TorqueInputs == {1}
PositionInputs == {0, 600}
CurrentInputs == {0, 50}
StateInputs == {"position", "current", "temperature"}
ModeInputs == {"position", "current", "current_based_position", "velocity"}

\* a method of the simulated backend is called and ends as res says
FakeCall(name, args, res) ==
    /\ pc = "idle"
    /\ op' = [name |-> name, args |-> args]
    /\ fake' = res.fake
    /\ ret' = res.ret
    /\ exc' = res.exc
    /\ startFake' = fake
    /\ startBaud' = linkBaud
    /\ startId' = devId
    /\ trace' = <<>>
    /\ NoLoop
    /\ UNCHANGED <<hwVars, raw>>

\* a call that steps the simulation: it counts if it moved a motor
Stepped(res) ==
    /\ res.fake # fake => simSteps < MaxSimSteps
    /\ simSteps' = IF res.fake # fake THEN simSteps + 1 ELSE simSteps

InitGroupSyncRead ==
    /\ \E motor_ids \in InitGroupInputs :
        FakeCall("init_group_sync_read", <<motor_ids>>, init_group_sync_read(fake, motor_ids))
    /\ called' = called \cup {"init_group_sync_read"}
    /\ lastInitIds' = Some(op'.args[1])
    /\ UNCHANGED simSteps

InitSpecificGroupSyncRead ==
    \E state \in StateInputs :
        LET res == init_specific_group_sync_read(fake, state)
        IN  /\ FakeCall("init_specific_group_sync_read", <<state>>, res)
            /\ called' = IF res.exc = "none"
                         THEN called \cup {"init_specific_group_sync_read"}
                         ELSE called
            /\ UNCHANGED <<lastInitIds, simSteps>>

SyncReadState ==
    /\ \E drift \in Drifts(fake) :
        LET res == sync_read_state(fake, drift)
        IN  /\ FakeCall("sync_read_state", <<>>, res)
            /\ Stepped(res)
    /\ UNCHANGED <<called, lastInitIds>>

SyncReadSpecific ==
    /\ \E state \in StateInputs, drift \in Drifts(fake) :
        LET res == sync_read_specific(fake, state, drift)
        IN  /\ FakeCall("sync_read_specific", <<state>>, res)
            /\ Stepped(res)
    /\ UNCHANGED <<called, lastInitIds>>

SyncWritePositions ==
    /\ \E positions \in SeqsUpTo(PositionInputs, MaxValues) :
        FakeCall("sync_write_positions", <<positions>>, sync_write_positions(fake, positions))
    /\ UNCHANGED <<called, lastInitIds, simSteps>>

SyncWriteCurrents ==
    /\ \E currents \in SeqsUpTo(CurrentInputs, MaxValues) :
        FakeCall("sync_write_currents", <<currents>>, sync_write_currents(fake, currents))
    /\ UNCHANGED <<called, lastInitIds, simSteps>>

EnableTorque ==
    /\ \E motor_id \in TorqueInputs :
        FakeCall("enable_torque", <<motor_id>>, enable_torque(fake, motor_id))
    /\ UNCHANGED <<called, lastInitIds, simSteps>>

SetMotorMode ==
    /\ \E motor_id \in TorqueInputs, mode \in ModeInputs :
        FakeCall("set_motor_mode", <<motor_id, mode>>, set_motor_mode(fake, motor_id, mode))
    /\ UNCHANGED <<called, lastInitIds, simSteps>>

----------------------------------------------------------------------------
(* FakeU2D2Interface: single-motor calls, bulk reads and the test helpers *)

disable_torque(f, motor_id) ==
    Returns([f EXCEPT !._torque_enabled = DictPut(@, motor_id, FALSE)], <<>>)

\* if motor_id not in self._motor_states: self._initialize_motor_state(motor_id)
InitializeIfMissing(f, motor_id) ==
    IF motor_id \in DOMAIN f._motor_states THEN f ELSE _initialize_motor_state(f, motor_id)

set_goal_position(f, motor_id, goal) ==
    Returns(InitializeIfMissing([f EXCEPT !._goal_positions = DictPut(@, motor_id, goal)],
                                motor_id), <<>>)

set_goal_current(f, motor_id, current) ==
    Returns(InitializeIfMissing([f EXCEPT !._goal_currents = DictPut(@, motor_id, current)],
                                motor_id), <<>>)

\* get_position(motor_id); drift is drawn for the motors of the initialized state
get_position(f, motor_id, drift) ==
    LET g == _simulate_motor_behavior(InitializeIfMissing(f, motor_id), drift)
    IN  Returns(g, PyInt(g._motor_states[motor_id].position))

get_velocity(f, motor_id, drift) ==
    LET g == _simulate_motor_behavior(InitializeIfMissing(f, motor_id), drift)
    IN  Returns(g, PyInt(g._motor_states[motor_id].velocity))

get_current(f, motor_id, drift) ==
    LET g == _simulate_motor_behavior(InitializeIfMissing(f, motor_id), drift)
    IN  Returns(g, g._motor_states[motor_id].current)

\* set_motor_state(motor_id, position, velocity, current), each one optional
set_motor_state(f, motor_id, position, velocity, current) ==
    LET g  == InitializeIfMissing(f, motor_id)
        s0 == g._motor_states[motor_id]
        s1 == IF position # None THEN [s0 EXCEPT !.position = position[1] * Scale] ELSE s0
        s2 == IF velocity # None THEN [s1 EXCEPT !.velocity = velocity[1] * Scale] ELSE s1
        s3 == IF current # None THEN [s2 EXCEPT !.current = current[1]] ELSE s2
    IN  Returns([g EXCEPT !._motor_states = DictPut(@, motor_id, s3)], <<>>)

\* struct.pack accepts value for a field of that many bytes
Packable(value, length) ==
    /\ value >= 0
    /\ IF length = 2 THEN value <= 65535 ELSE TRUE

\* the unsigned value as two 16-bit halves
AsU32(value) == U32(value \div 65536, value % 65536)

\* the loop of FakeU2D2Interface.bulk_read from entry k on
RECURSIVE FakeBulkReadFrom(_, _, _, _)
FakeBulkReadFrom(f, read_params, k, results) ==
    IF k > Len(read_params) THEN Returns(f, results)
    ELSE
    LET motor_id == read_params[k][1]
        address  == read_params[k][2]
        length   == read_params[k][3]
        g        == InitializeIfMissing(f, motor_id)
        state    == g._motor_states[motor_id]
        key      == <<motor_id, address>>
    IN  IF address = ADDR_PRESENT_POSITION
        THEN IF Packable(PyInt(state.position), 4)
             THEN FakeBulkReadFrom(g, read_params, k + 1,
                      DictPut(results, key, PackI(AsU32(PyInt(state.position)))))
             ELSE Raises(g, "struct.error")
        ELSE IF address = ADDR_PRESENT_VELOCITY
        THEN IF Packable(PyInt(state.velocity), 4)
             THEN FakeBulkReadFrom(g, read_params, k + 1,
                      DictPut(results, key, PackI(AsU32(PyInt(state.velocity)))))
             ELSE Raises(g, "struct.error")
        ELSE IF address = ADDR_PRESENT_CURRENT
        THEN IF Packable(state.current, 2)
             THEN FakeBulkReadFrom(g, read_params, k + 1,
                      DictPut(results, key, PackH(AsU32(state.current))))
             ELSE Raises(g, "struct.error")
        ELSE FakeBulkReadFrom(g, read_params, k + 1,
                 DictPut(results, key, ZeroBytes(length)))

FakeBulkReadRun(f, read_params) == FakeBulkReadFrom(f, read_params, 1, <<>>)

\* the decoders of the simulated backend
_parse_position(data) ==
    IF Len(data) >= 4
    THEN LET value == UnpackI(data)
         IN  IF value.hi > 32767
             THEN (value.hi - 65536) * 65536 + value.lo
             ELSE value.hi * 65536 + value.lo
    ELSE 0

_parse_velocity(data) ==
    IF Len(data) >= 4
    THEN LET value == UnpackI(data)
         IN  IF value.hi > 32767
             THEN (value.hi - 65536) * 65536 + value.lo
             ELSE value.hi * 65536 + value.lo
    ELSE 0

\* a 2-byte decoder whose sign threshold is one too high
_parse_current_late_sign(data) ==
    IF Len(data) >= 2
    THEN LET value == UnpackH(data)
         IN  IF value > 32768 THEN value - 65536 ELSE value
    ELSE 0

_parse_current(data) ==
    IF Len(data) >= 2
    THEN LET value == UnpackH(data)
         IN  IF value > 32767 THEN value - 65536 ELSE value
    ELSE 0

FakeBulkReadPositionsRun(f, motor_ids) ==
    LET res == FakeBulkReadRun(f, ReadParamsFor(motor_ids, ADDR_PRESENT_POSITION,
                                                LEN_PRESENT_POSITION))
    IN  IF res.exc # "none" THEN res
        ELSE Returns(res.fake,
                [motor_id \in ElemsOf(motor_ids) |->
                    _parse_position(DictGet(res.ret, <<motor_id, ADDR_PRESENT_POSITION>>,
                                            <<0, 0, 0, 0>>))])

FakeBulkReadVelocitiesRun(f, motor_ids) ==
    LET res == FakeBulkReadRun(f, ReadParamsFor(motor_ids, ADDR_PRESENT_VELOCITY,
                                                LEN_PRESENT_VELOCITY))
    IN  IF res.exc # "none" THEN res
        ELSE Returns(res.fake,
                [motor_id \in ElemsOf(motor_ids) |->
                    _parse_velocity(DictGet(res.ret, <<motor_id, ADDR_PRESENT_VELOCITY>>,
                                            <<0, 0, 0, 0>>))])

FakeBulkReadCurrentsRun(f, motor_ids) ==
    LET res == FakeBulkReadRun(f, ReadParamsFor(motor_ids, ADDR_PRESENT_CURRENT,
                                                LEN_PRESENT_CURRENT))
    IN  IF res.exc # "none" THEN res
        ELSE Returns(res.fake,
                [motor_id \in ElemsOf(motor_ids) |->
                    _parse_current(DictGet(res.ret, <<motor_id, ADDR_PRESENT_CURRENT>>,
                                           <<0, 0>>))])

FakeBulkReadStatesRun(f, motor_ids) ==
    LET positions == FakeBulkReadPositionsRun(f, motor_ids)
    IN  IF positions.exc # "none" THEN positions
        ELSE
        LET velocities == FakeBulkReadVelocitiesRun(positions.fake, motor_ids)
        IN  IF velocities.exc # "none" THEN velocities
            ELSE
            LET currents == FakeBulkReadCurrentsRun(velocities.fake, motor_ids)
            IN  IF currents.exc # "none" THEN currents
                ELSE Returns(currents.fake,
                        [motor_id \in ElemsOf(motor_ids) |->
                            [position |-> positions.ret[motor_id],
                             velocity |-> velocities.ret[motor_id],
                             current  |-> currents.ret[motor_id]]])

\* bulk_write_positions(motor_ids, positions) of the simulated backend
bulk_write_positions(f, motor_ids, positions) ==
    IF Len(motor_ids) # Len(positions) THEN Raises(f, "ValueError")
    ELSE Returns(WriteGoalPositions(f, motor_ids, positions, 1), <<>>)

\* bulk_write_currents(motor_ids, currents) of the simulated backend
bulk_write_currents(f, motor_ids, currents) ==
    IF Len(motor_ids) # Len(currents) THEN Raises(f, "ValueError")
    ELSE Returns(WriteGoalCurrents(f, motor_ids, currents, 1), <<>>)

\* the inputs of the single-motor calls and of the bulk reads
SimMotorInputs == {1, 2}
\* starting positions on both sides of the goals, inside and outside the
\* range where the velocity is clamped
StartPositions == {0 - 20, 620}
GoalInputs == {0, 600}
GoalCurrentInputs == {50}
FakeReadTriples ==
    {<<1, ADDR_PRESENT_POSITION, LEN_PRESENT_POSITION>>,
     <<2, 64, 1>>}

DisableTorque ==
    /\ \E motor_id \in TorqueInputs :
        FakeCall("disable_torque", <<motor_id>>, disable_torque(fake, motor_id))
    /\ UNCHANGED <<called, lastInitIds, simSteps>>

SetGoalPosition ==
    /\ \E motor_id \in TorqueInputs, goal \in GoalInputs :
        FakeCall("set_goal_position", <<motor_id, goal>>,
                 set_goal_position(fake, motor_id, goal))
    /\ UNCHANGED <<called, lastInitIds, simSteps>>

SetGoalCurrent ==
    /\ \E motor_id \in TorqueInputs, current \in GoalCurrentInputs :
        FakeCall("set_goal_current", <<motor_id, current>>,
                 set_goal_current(fake, motor_id, current))
    /\ UNCHANGED <<called, lastInitIds, simSteps>>

SetMotorState ==
    /\ \E motor_id \in TorqueInputs, position \in StartPositions :
        FakeCall("set_motor_state", <<motor_id, Some(position), None, None>>,
                 set_motor_state(fake, motor_id, Some(position), None, None))
    /\ UNCHANGED <<called, lastInitIds, simSteps>>

\* the (motor_ids, values) pairs the bulk goal writes are given
BulkGoalInputs(v) ==
    {<<<<1>>, <<v>>>>, <<<<2>>, <<v>>>>, <<<<1, 2>>, <<v, 0>>>>, <<<<1, 2>>, <<v>>>>}

FakeBulkWritePositions ==
    /\ \E x \in BulkGoalInputs(600) :
        FakeCall("bulk_write_positions", x, bulk_write_positions(fake, x[1], x[2]))
    /\ UNCHANGED <<called, lastInitIds, simSteps>>

FakeBulkWriteCurrents ==
    /\ \E x \in BulkGoalInputs(50) :
        FakeCall("bulk_write_currents", x, bulk_write_currents(fake, x[1], x[2]))
    /\ UNCHANGED <<called, lastInitIds, simSteps>>

GetPosition ==
    /\ \E motor_id \in SimMotorInputs :
        \E drift \in Drifts(InitializeIfMissing(fake, motor_id)) :
            LET res == get_position(fake, motor_id, drift)
            IN  /\ FakeCall("get_position", <<motor_id>>, res)
                /\ Stepped(res)
    /\ UNCHANGED <<called, lastInitIds>>

GetVelocity ==
    /\ \E motor_id \in SimMotorInputs :
        \E drift \in Drifts(InitializeIfMissing(fake, motor_id)) :
            LET res == get_velocity(fake, motor_id, drift)
            IN  /\ FakeCall("get_velocity", <<motor_id>>, res)
                /\ Stepped(res)
    /\ UNCHANGED <<called, lastInitIds>>

GetCurrent ==
    /\ \E motor_id \in SimMotorInputs :
        \E drift \in Drifts(InitializeIfMissing(fake, motor_id)) :
            LET res == get_current(fake, motor_id, drift)
            IN  /\ FakeCall("get_current", <<motor_id>>, res)
                /\ Stepped(res)
    /\ UNCHANGED <<called, lastInitIds>>

FakeBulkRead ==
    /\ \E read_params \in SeqsUpTo(FakeReadTriples, MaxBulk) :
        FakeCall("bulk_read", <<read_params>>, FakeBulkReadRun(fake, read_params))
    /\ UNCHANGED <<called, lastInitIds, simSteps>>

FakeBulkReadPositions ==
    /\ \E motor_ids \in MotorLists :
        FakeCall("bulk_read_positions", <<motor_ids>>,
                 FakeBulkReadPositionsRun(fake, motor_ids))
    /\ UNCHANGED <<called, lastInitIds, simSteps>>

FakeBulkReadVelocities ==
    /\ \E motor_ids \in MotorLists :
        FakeCall("bulk_read_velocities", <<motor_ids>>,
                 FakeBulkReadVelocitiesRun(fake, motor_ids))
    /\ UNCHANGED <<called, lastInitIds, simSteps>>

FakeBulkReadCurrents ==
    /\ \E motor_ids \in MotorLists :
        FakeCall("bulk_read_currents", <<motor_ids>>,
                 FakeBulkReadCurrentsRun(fake, motor_ids))
    /\ UNCHANGED <<called, lastInitIds, simSteps>>

FakeBulkReadStates ==
    /\ \E motor_ids \in MotorLists :
        FakeCall("bulk_read_states", <<motor_ids>>,
                 FakeBulkReadStatesRun(fake, motor_ids))
    /\ UNCHANGED <<called, lastInitIds, simSteps>>

----------------------------------------------------------------------------
(* The codec: the decoders of both backends and the encoders of the bulk    *)
(* writes of U2D2Interface                                                   *)

\* position_bytes = struct.pack('<I', int(position))
position_bytes(position) ==
    IF Packable(position, 4)
    THEN [ret |-> PackI(AsU32(position)), exc |-> "none"]
    ELSE [ret |-> <<>>, exc |-> "struct.error"]

\* current_bytes of bulk_write_currents
current_bytes(current) ==
    LET current_value == IF current < 0 THEN 65536 + current ELSE current
    IN  IF Packable(current_value, 2)
        THEN [ret |-> PackH(AsU32(current_value)), exc |-> "none"]
        ELSE [ret |-> <<>>, exc |-> "struct.error"]

\* a bulk_write that gives up at the first entry the SDK does not accept
BulkWriteTraceAbortOnAddFailure(write_params, a, t) ==
    IF write_params = <<>> THEN <<>>
    ELSE IF \E i \in 1..Len(write_params) : ~a[i]
    THEN LET k == CHOOSE i \in 1..Len(write_params) :
                     ~a[i] /\ \A j \in 1..(i - 1) : a[j]
         IN  [i \in 1..k |->
                 Call("addParam", write_params[i], IF a[i] THEN "ok" ELSE "fail")]
    ELSE [i \in 1..Len(write_params) |-> Call("addParam", write_params[i], "ok")]
         \o <<Call("txPacket", <<>>, t)>>

\* bulk_write(write_params): addParam for every entry (a[i] is whether the
\* SDK accepted it), one txPacket ending with t, nothing for an empty list
BulkWriteTrace(write_params, a, t) ==
    IF write_params = <<>> THEN <<>>
    ELSE [i \in 1..Len(write_params) |->
             Call("addParam", write_params[i], IF a[i] THEN "ok" ELSE "fail")]
         \o <<Call("txPacket", <<>>, t)>>

\* bulk_write_positions(motor_ids, positions)
BulkWritePositionsRun(motor_ids, positions, a, t) ==
    IF Len(motor_ids) # Len(positions)
    THEN [trace |-> <<>>, ret |-> <<>>, exc |-> "ValueError"]
    ELSE IF \E i \in 1..Len(positions) : position_bytes(positions[i]).exc # "none"
    THEN [trace |-> <<>>, ret |-> <<>>, exc |-> "struct.error"]
    ELSE [trace |-> BulkWriteTrace(
                       [i \in 1..Len(motor_ids) |->
                           <<motor_ids[i], ADDR_GOAL_POSITION,
                             position_bytes(positions[i]).ret>>], a, t),
          ret   |-> <<>>,
          exc   |-> "none"]

\* bulk_write_currents(motor_ids, currents)
BulkWriteCurrentsRun(motor_ids, currents, a, t) ==
    IF Len(motor_ids) # Len(currents)
    THEN [trace |-> <<>>, ret |-> <<>>, exc |-> "ValueError"]
    ELSE IF \E i \in 1..Len(currents) : current_bytes(currents[i]).exc # "none"
    THEN [trace |-> <<>>, ret |-> <<>>, exc |-> "struct.error"]
    ELSE [trace |-> BulkWriteTrace(
                       [i \in 1..Len(motor_ids) |->
                           <<motor_ids[i], ADDR_GOAL_CURRENT,
                             current_bytes(currents[i]).ret>>], a, t),
          ret   |-> <<>>,
          exc   |-> "none"]

\* the (motor_id, address, data_bytes) entries a caller writes
WriteTriples ==
    {<<1, ADDR_GOAL_POSITION, <<0, 8, 0, 0>>>>,
     <<2, ADDR_GOAL_POSITION, <<255, 7, 0, 0>>>>,
     <<1, ADDR_GOAL_CURRENT, <<50, 0>>>>}

BulkWrite ==
    /\ pc = "idle"
    /\ \E write_params \in SeqsUpTo(WriteTriples, MaxBulk) :
        \E a \in [1..Len(write_params) -> BOOLEAN], t \in {"ok", "fail"} :
            /\ write_params = <<>> => t = "ok"
            /\ op' = [name |-> "bulk_write", args |-> <<write_params>>]
            /\ trace' = BulkWriteTrace(write_params, a, t)
    /\ ret' = <<>>
    /\ startBaud' = linkBaud
    /\ startId' = devId
    /\ NoLoop
    /\ UNCHANGED hwVars
    /\ UNCHANGED fakeVars

\* the bytes a decoder is handed
ByteInputs == {0, 1, 127, 128, 255}
ByteStrings == SeqsUpTo(ByteInputs, MaxBytes)

\* a codec function is applied and ends as res says
CodecCall(name, args, res) ==
    /\ op' = [name |-> name, args |-> args]
    /\ ret' = res.ret
    /\ exc' = res.exc
    /\ startBaud' = linkBaud
    /\ startId' = devId
    /\ trace' = res.trace
    /\ NoLoop
    /\ UNCHANGED <<hwVars, fake, startFake, called, lastInitIds, simSteps, raw>>

ParsePosition ==
    /\ pc = "idle"
    /\ CodecCall("parse_position", <<raw>>, [trace |-> <<>>, ret |-> parse_position(raw), exc |-> "none"])

ParseVelocity ==
    /\ pc = "idle"
    /\ CodecCall("parse_velocity", <<raw>>, [trace |-> <<>>, ret |-> parse_velocity(raw), exc |-> "none"])

ParseCurrent ==
    /\ pc = "idle"
    /\ CodecCall("parse_current", <<raw>>, [trace |-> <<>>, ret |-> parse_current(raw), exc |-> "none"])

FakeParsePosition ==
    /\ pc = "idle"
    /\ CodecCall("_parse_position", <<raw>>, [trace |-> <<>>, ret |-> _parse_position(raw), exc |-> "none"])

FakeParseVelocity ==
    /\ pc = "idle"
    /\ CodecCall("_parse_velocity", <<raw>>, [trace |-> <<>>, ret |-> _parse_velocity(raw), exc |-> "none"])

FakeParseCurrent ==
    /\ pc = "idle"
    /\ CodecCall("_parse_current", <<raw>>, [trace |-> <<>>, ret |-> _parse_current(raw), exc |-> "none"])

\* the caller hands the position it decoded to bulk_write_positions
WritePositionBack ==
    /\ pc = "returned"
    /\ op.name = "parse_position"
    /\ \E a \in [1..1 -> BOOLEAN], t \in {"ok", "fail"} :
        CodecCall("bulk_write_positions", <<<<1>>, <<ret>>>>,
                  BulkWritePositionsRun(<<1>>, <<ret>>, a, t))

\* the caller hands the current it decoded to bulk_write_currents
WriteCurrentBack ==
    /\ pc = "returned"
    /\ op.name = "parse_current"
    /\ \E a \in [1..1 -> BOOLEAN], t \in {"ok", "fail"} :
        CodecCall("bulk_write_currents", <<<<1>>, <<ret>>>>,
                  BulkWriteCurrentsRun(<<1>>, <<ret>>, a, t))

----------------------------------------------------------------------------
(* U2D2Interface.set_motor_mode *)

\* the mode names set_motor_mode knows and the register value of each:
\* POSITION_CONTROL, CURRENT_CONTROL_MODE, CURRENT_BASED_POSITION_CONTROL
mode_map ==
    [mode \in {"position", "current", "current_based_position"} |->
        IF mode = "position" THEN 3 ELSE IF mode = "current" THEN 0 ELSE 5]

\* set_motor_mode(motor_id, mode) of the hardware backend; w is how the
\* register write of _set_operating_mode ends
U2D2_set_motor_mode(motor_id, mode, w) ==
    IF mode \notin DOMAIN mode_map
    THEN [trace |-> <<>>, ret |-> <<>>, exc |-> "ValueError"]
    ELSE [trace |-> <<Call("write1ByteTxRx",
                           <<motor_id, ADDR_OPERATING_MODE, mode_map[mode]>>, w)>>,
          ret   |-> <<>>,
          exc   |-> IF Raised(w) THEN "Exception" ELSE "none"]

U2D2SetMotorMode ==
    /\ pc = "idle"
    /\ \E motor_id \in MotorInputs, mode \in ModeInputs :
        \E w \in {o \in WriteOutcomes :
                    o = "ok" => Responds(devId, devBaud, motor_id, linkBaud)} :
            LET res == U2D2_set_motor_mode(motor_id, mode, w)
            IN  /\ op' = [name |-> "U2D2Interface.set_motor_mode",
                          args |-> <<motor_id, mode>>]
                /\ trace' = res.trace
                /\ ret' = res.ret
                /\ exc' = res.exc
    /\ startBaud' = linkBaud
    /\ startId' = devId
    /\ NoLoop
    /\ UNCHANGED <<hwVars, fake, startFake, called, lastInitIds, simSteps, raw>>

----------------------------------------------------------------------------

\* a FakeU2D2Interface is constructed with or without motor_ids; it has no link
FakeInit ==
    /\ linkBaud = 4000000
    /\ devId = [d \in Dev |-> 1]
    /\ devBaud = [d \in Dev |-> 6]
    /\ op = [name |-> "none", args |-> <<>>]
    /\ startBaud = linkBaud
    /\ startId = devId
    /\ trace = <<>>
    /\ ret = <<>>
    /\ pc = "idle"
    /\ idx = 0
    /\ acc = <<>>
    /\ hist = <<>>
    /\ queue = <<>>
    /\ busUsed = FALSE
    /\ fake \in {FakeU2D2Interface(motor_ids) : motor_ids \in GroupInputs}
    /\ startFake = fake
    /\ exc = "none"
    /\ called = {}
    /\ lastInitIds = None
    /\ simSteps = 0
    /\ raw = <<>>

\* FakeU2D2Interface(motor_ids=[1, 2])
SimInit ==
    /\ linkBaud = 4000000
    /\ devId = [d \in Dev |-> 1]
    /\ devBaud = [d \in Dev |-> 6]
    /\ op = [name |-> "none", args |-> <<>>]
    /\ startBaud = linkBaud
    /\ startId = devId
    /\ trace = <<>>
    /\ ret = <<>>
    /\ pc = "idle"
    /\ idx = 0
    /\ acc = <<>>
    /\ hist = <<>>
    /\ queue = <<>>
    /\ busUsed = FALSE
    /\ fake = FakeU2D2Interface(Some(<<1, 2>>))
    /\ startFake = fake
    /\ exc = "none"
    /\ called = {}
    /\ lastInitIds = None
    /\ simSteps = 0
    /\ raw = <<>>

\* the caller holds a byte string; no call has been made
CodecInit ==
    /\ linkBaud = 4000000
    /\ devId = [d \in Dev |-> 1]
    /\ devBaud = [d \in Dev |-> 6]
    /\ op = [name |-> "none", args |-> <<>>]
    /\ startBaud = linkBaud
    /\ startId = devId
    /\ trace = <<>>
    /\ ret = <<>>
    /\ pc = "idle"
    /\ idx = 0
    /\ acc = <<>>
    /\ hist = <<>>
    /\ queue = <<>>
    /\ busUsed = FALSE
    /\ fake = FakeU2D2Interface(None)
    /\ startFake = fake
    /\ exc = "none"
    /\ called = {}
    /\ lastInitIds = None
    /\ simSteps = 0
    /\ raw \in ByteStrings

Init ==
    /\ linkBaud \in BaudInputs
    /\ devId \in [Dev -> InitIds]
    /\ devBaud \in [Dev -> InitCodes]
    /\ op = [name |-> "none", args |-> <<>>]
    /\ startBaud = linkBaud
    /\ startId = devId
    /\ trace = <<>>
    /\ ret = <<>>
    /\ pc = "idle"
    /\ idx = 0
    /\ acc = <<>>
    /\ hist = <<>>
    /\ queue = <<>>
    /\ busUsed = FALSE
    /\ fake = FakeU2D2Interface(None)
    /\ startFake = fake
    /\ exc = "none"
    /\ called = {}
    /\ lastInitIds = None
    /\ simSteps = 0
    /\ raw = <<>>

\* the caller takes the result and is free to make its next call: calls are
\* sequential, none is issued while another is in flight
Return ==
    /\ pc = "returned"
    /\ pc' = "idle"
    /\ op' = [name |-> "none", args |-> <<>>]
    /\ startBaud' = linkBaud
    /\ startId' = devId
    /\ trace' = <<>>
    /\ ret' = <<>>
    /\ idx' = 0
    /\ acc' = <<>>
    /\ hist' = <<>>
    /\ queue' = <<>>
    /\ busUsed' = FALSE
    /\ exc' = "none"
    /\ startFake' = fake
    /\ UNCHANGED <<hwVars, fake, called, lastInitIds, simSteps, raw>>

NextScan ==
    \/ ScanMotorsAtBaudrate
    \/ ScanAllBegin
    \/ ScanAllStep
    \/ FakeScanAllBegin
    \/ FakeScanAllStep
    \/ Return

SpecScan == Init /\ [][NextScan]_vars

NextChange == ChangeMotorBaudrate \/ ChangeMotorId \/ Return

SpecChange == Init /\ [][NextChange]_vars

NextBatch == ChangeMotorsIdBegin \/ ChangeMotorsIdStep \/ FakeChangeMotorsId \/ Return

SpecBatch == Init /\ [][NextBatch]_vars

NextBatches ==
    \/ ChangeMotorsIdBegin
    \/ ChangeMotorsIdStep
    \/ ChangeMotorsBaudrateBegin
    \/ ChangeMotorsBaudrateStep
    \/ Return

SpecBatches == Init /\ [][NextBatches]_vars

NextBulk ==
    \/ BulkRead
    \/ BulkReadPositions
    \/ BulkReadVelocities
    \/ BulkReadCurrents
    \/ BulkReadStates
    \/ Return
SpecBulk == Init /\ [][NextBulk]_vars

NextFake ==
    \/ InitGroupSyncRead
    \/ InitSpecificGroupSyncRead
    \/ SyncReadState
    \/ SyncReadSpecific
    \/ SyncWritePositions
    \/ SyncWriteCurrents
    \/ EnableTorque
    \/ SetMotorMode
    \/ Return

SpecFake == FakeInit /\ [][NextFake]_vars

NextSim ==
    \/ SetMotorState
    \/ SetGoalPosition
    \/ SetGoalCurrent
    \/ EnableTorque
    \/ DisableTorque
    \/ SetMotorMode
    \/ SyncReadState
    \/ SyncReadSpecific
    \/ GetPosition
    \/ GetVelocity
    \/ GetCurrent
    \/ FakeBulkRead
    \/ FakeBulkReadPositions
    \/ FakeBulkReadVelocities
    \/ FakeBulkReadCurrents
    \/ FakeBulkReadStates
    \/ Return

SpecSim == SimInit /\ [][NextSim]_vars

NextGoal ==
    \/ SetGoalPosition
    \/ SetGoalCurrent
    \/ SyncWritePositions
    \/ FakeBulkWritePositions
    \/ FakeBulkWriteCurrents
    \/ EnableTorque
    \/ SetMotorMode
    \/ Return

SpecGoal == FakeInit /\ [][NextGoal]_vars

NextBulkWrite == BulkWrite \/ Return

SpecBulkWrite == Init /\ [][NextBulkWrite]_vars

NextMode == SetMotorMode \/ U2D2SetMotorMode \/ Return

SpecMode == FakeInit /\ [][NextMode]_vars

NextCodec ==
    \/ ParsePosition
    \/ ParseVelocity
    \/ ParseCurrent
    \/ FakeParsePosition
    \/ FakeParseVelocity
    \/ FakeParseCurrent
    \/ WritePositionBack
    \/ WriteCurrentBack
    \/ Return

SpecCodec == CodecInit /\ [][NextCodec]_vars

----------------------------------------------------------------------------
(* Link rate save/restore *)

Returned(name) == pc = "returned" /\ op.name = name

\* the last transport call of the method was a setBaudRate(original rate) that
\* the transport did not carry out
RestoreRefused ==
    /\ trace # <<>>
    /\ trace[Len(trace)].call = "setBaudRate"
    /\ trace[Len(trace)].args = <<startBaud>>
    /\ trace[Len(trace)].out \in {"refuse", "raise"}

WorkingRate == IF op.name = "change_motor_baudrate" THEN op.args[2] ELSE op.args[3]

----------------------------------------------------------------------------
(* Batch validation *)

InBatch(name) == op.name = name /\ pc \in {"returned", name}

\* some target ID is the current ID of another entry
Overlapping(id_mapping) ==
    \E i, j \in 1..Len(id_mapping) : i # j /\ id_mapping[i][2] = id_mapping[j][1]

\* C3: change_motors_id given a mapping in which a target ID is also the
\* current ID of another entry returns without any transport call, and no
\* device ID is changed.
C3_OverlapRejected ==
    (InBatch("change_motors_id") /\ Overlapping(op.args[1])) =>
        /\ pc = "returned"
        /\ ~busUsed
        /\ devId = startId
        /\ ret = <<>>

Rejected(id_mapping) ==
    \/ \E i \in 1..Len(id_mapping) : id_mapping[i][2] < 0 \/ id_mapping[i][2] > 252
    \/ \E i, j \in 1..Len(id_mapping) : i # j /\ id_mapping[i][2] = id_mapping[j][2]

\* C4: change_motors_id (of either backend) given a mapping with a target ID
\* outside 0..252, or with two entries that have the same target ID, returns
\* the empty map and issues no transport call: the link and every device are
\* as before.
C4_InvalidBatchTouchesNothing ==
    ((InBatch("change_motors_id") \/ InBatch("fake_change_motors_id"))
            /\ Rejected(op.args[1])) =>
        /\ pc = "returned"
        /\ ret = <<>>
        /\ ~busUsed
        /\ trace = <<>>
        /\ linkBaud = startBaud
        /\ devId = startId

\* a mapping whose first entry is valid and whose second is not was rejected
C4_Witness ==
    /\ Returned("change_motors_id")
    /\ Len(op.args[1]) = 2
    /\ op.args[1][1][2] \in 0..252
    /\ op.args[1][1][2] # op.args[1][1][1]
    /\ op.args[1][2][2] > 252
    /\ ret = <<>>

----------------------------------------------------------------------------
(* C5: which rate scan_all_baudrates reports for an ID seen at several *)

ScanAllReturned ==
    /\ pc = "returned"
    /\ op.name \in {"scan_all_baudrates", "fake_scan_all_baudrates"}

\* the indexes in SCAN_BAUDRATES of the scans that detected `id`
FoundAt(id) ==
    {i \in 1..Len(hist) : \E j \in 1..Len(hist[i]) : hist[i][j] = id}

DetectedIds ==
    UNION {{hist[i][j] : j \in 1..Len(hist[i])} : i \in 1..Len(hist)}

MinOf(S) == CHOOSE x \in S : \A y \in S : x <= y
MaxOf(S) == CHOOSE x \in S : \A y \in S : x >= y

\* C5 as stated: scan_all_baudrates (both backends) reports every detected ID
\* at the first, lowest-index rate of SCAN_BAUDRATES at which a scan saw it.
C5_FirstRateWins ==
    ScanAllReturned =>
        \A id \in DOMAIN ret : ret[id] = SCAN_BAUDRATES[MinOf(FoundAt(id))]

\* C5 amended: scan_all_baudrates (both backends) reports exactly the IDs some
\* scan detected, each at the last, highest-index rate of SCAN_BAUDRATES at
\* which a scan saw it.
C5_LastRateWins ==
    ScanAllReturned =>
        /\ DOMAIN ret = DetectedIds
        /\ \A id \in DOMAIN ret : ret[id] = SCAN_BAUDRATES[MaxOf(FoundAt(id))]

\* a hardware scan in which two devices answered for one ID at two rates
C5_Witness ==
    /\ Returned("scan_all_baudrates")
    /\ \E id \in DOMAIN ret :
        /\ Cardinality(FoundAt(id)) >= 2
        /\ ret[id] = 4000000

----------------------------------------------------------------------------
(* C6, C7, C8: what a bulk read returns *)

CommFailed == \E i \in 1..Len(trace) :
                 trace[i].call = "txRxPacket" /\ trace[i].out = "fail"

\* entry i of the request of a successful bulk_read was found unavailable
FoundUnavailable(i) == trace[i + 1] = Call("isAvailable", op.args[1][i], "no")

\* C6: when the transaction of U2D2Interface.bulk_read succeeds, the result
\* has a key (motor_id, address) for every requested triple, and a triple
\* that was not available yields `length` zero bytes under its key (a key
\* requested twice holds what its last triple yields).
C6_SuccessfulBulkReadIsTotal ==
    (Returned("bulk_read") /\ ~CommFailed) =>
        LET read_params == op.args[1]
        IN  \A i \in 1..Len(read_params) :
                LET key == << read_params[i][1], read_params[i][2] >>
                IN  /\ key \in DOMAIN ret
                    /\ (LastWithKey(read_params, i) /\ FoundUnavailable(i)) =>
                          /\ Len(ret[key]) = read_params[i][3]
                          /\ \A b \in 1..Len(ret[key]) : ret[key][b] = 0

\* a successful read of two registers, one unavailable, one with data
C6_Witness ==
    /\ Returned("bulk_read")
    /\ ~CommFailed
    /\ op.args[1] = << <<1, ADDR_PRESENT_CURRENT, LEN_PRESENT_CURRENT>>,
                       <<2, ADDR_PRESENT_POSITION, LEN_PRESENT_POSITION>> >>
    /\ FoundUnavailable(1)
    /\ ~FoundUnavailable(2)
    /\ ret[<<2, ADDR_PRESENT_POSITION>>] = <<255, 255, 255, 255>>
    /\ ret[<<1, ADDR_PRESENT_CURRENT>>] = <<0, 0>>

\* C7: when the transaction of U2D2Interface.bulk_read fails, the call
\* returns the empty map, whatever the request held.
C7_FailedBulkReadIsEmpty ==
    (Returned("bulk_read") /\ CommFailed) => ret = <<>>

\* a failed read of two registers
C7_Witness ==
    /\ Returned("bulk_read")
    /\ CommFailed
    /\ Len(op.args[1]) = 2
    /\ DOMAIN ret = {}

BulkReaders ==
    {"bulk_read", "bulk_read_positions", "bulk_read_velocities",
     "bulk_read_currents", "bulk_read_states"}

\* every transaction succeeds and no entry is available
NoAnswer(read_params) ==
    [c |-> "ok",
     v |-> [i \in 1..Len(read_params) |-> FALSE],
     d |-> [i \in 1..Len(read_params) |-> U32(0, 0)]]

\* what the call that returned would have returned had every transaction
\* succeeded with no motor answering
NoAnswerResult ==
    LET a == op.args[1]
        xp == NoAnswer(ReadParamsFor(a, ADDR_PRESENT_POSITION, LEN_PRESENT_POSITION))
        xv == NoAnswer(ReadParamsFor(a, ADDR_PRESENT_VELOCITY, LEN_PRESENT_VELOCITY))
        xc == NoAnswer(ReadParamsFor(a, ADDR_PRESENT_CURRENT, LEN_PRESENT_CURRENT))
    IN  IF op.name = "bulk_read"
        THEN BulkReadRun(a, "ok", NoAnswer(a).v, NoAnswer(a).d).ret
        ELSE IF op.name = "bulk_read_positions" THEN BulkReadPositionsRun(a, xp).ret
        ELSE IF op.name = "bulk_read_velocities" THEN BulkReadVelocitiesRun(a, xv).ret
        ELSE IF op.name = "bulk_read_currents" THEN BulkReadCurrentsRun(a, xc).ret
        ELSE BulkReadStatesRun(a, xp, xv, xc).ret

\* C8: a transport failure shows in what a bulk reader returns: for
\* bulk_read and for bulk_read_positions, _velocities, _currents and _states,
\* the result of a call whose transaction failed differs from the result of
\* the same call succeeding with no motor answering.
C8_FailureDistinguishable ==
    (/\ pc = "returned"
     /\ op.name \in BulkReaders
     /\ op.args[1] # <<>>
     /\ CommFailed) => ret # NoAnswerResult

----------------------------------------------------------------------------
(* C9, C10: the sync operations of the simulated backend that fail *)

SyncWrites == {"sync_write_positions", "sync_write_currents"}
SyncOps == {"sync_read_state", "sync_read_specific"} \cup SyncWrites

\* C9: on an instance that has a sync group, sync_write_positions(values) and
\* sync_write_currents(values) with len(values) different from the length of
\* the group fail with the length-mismatch error (ValueError) and change no
\* field of the instance: no goal, no per-motor state.
C9_LengthMismatchHasNoEffect ==
    (/\ pc = "returned"
     /\ op.name \in SyncWrites
     /\ startFake.motor_ids # None
     /\ Len(op.args[1]) # Len(startFake.motor_ids[1])) =>
        /\ exc = "ValueError"
        /\ fake = startFake

\* a write of one value to a group of two motors whose goals an earlier
\* write has set
C9_Witness ==
    /\ Returned("sync_write_positions")
    /\ fake.motor_ids = Some(<<1, 2>>)
    /\ Len(op.args[1]) = 1
    /\ op.args[1][1] = 0
    /\ exc = "ValueError"
    /\ fake._goal_positions[1] = 600
    /\ fake._goal_positions[2] = 600

\* the init_* method whose call the sync operation waits for
RequiredInit(name) ==
    IF name = "sync_read_specific" THEN "init_specific_group_sync_read"
    ELSE "init_group_sync_read"

\* C10: each of sync_read_state, sync_read_specific, sync_write_positions and
\* sync_write_currents fails with the not-configured error (RuntimeError)
\* whenever no init_group_sync_read (init_specific_group_sync_read for
\* sync_read_specific) has been called on the instance before it, and the
\* failed call changes no field of the instance.
C10_NotConfiguredBeforeInit ==
    (/\ pc = "returned"
     /\ op.name \in SyncOps
     /\ RequiredInit(op.name) \notin called) =>
        /\ exc = "RuntimeError"
        /\ fake = startFake

----------------------------------------------------------------------------
(* C11: the group sync_read_state reads after init_group_sync_read *)

\* C11: after init_group_sync_read(ids), and until the next one,
\* sync_read_state returns three lists of length len(ids) whose i-th elements
\* are the present position, velocity and current of motor ids[i], whatever
\* motor_ids the instance was constructed with.
C11_InitReplacesGroup ==
    (Returned("sync_read_state") /\ lastInitIds # None) =>
        LET ids == lastInitIds[1]
            StateOf(i) == fake._motor_states[ids[i]]
        IN  /\ exc = "none"
            /\ ret = << [i \in 1..Len(ids) |-> PyInt(StateOf(i).position)],
                        [i \in 1..Len(ids) |-> PyInt(StateOf(i).velocity)],
                        [i \in 1..Len(ids) |-> StateOf(i).current] >>

----------------------------------------------------------------------------
(* C12, C13: the single-motor changes validate before they touch the bus *)

\* C12: change_motor_baudrate with a new_baud outside BAUDRATE_MAP returns
\* False and issues no transport call (no getBaudRate, setBaudRate or write):
\* the link rate and every device are as before.
C12_InvalidBaudNoBusAccess ==
    (Returned("change_motor_baudrate") /\ op.args[3] \notin DOMAIN BAUDRATE_MAP) =>
        /\ ret = FALSE
        /\ trace = <<>>
        /\ linkBaud = startBaud
        /\ devId = startId

\* an invalid new_baud for a motor that sits at another rate than the link
C12_Witness ==
    /\ Returned("change_motor_baudrate")
    /\ op.args[3] = 19200
    /\ op.args[2] # startBaud
    /\ Responds(devId, devBaud, op.args[1], op.args[2])
    /\ ret = FALSE

\* C13: change_motor_id with new_id < 0 or new_id > 252 returns False and
\* issues no transport call, the link rate and every device ID as before; with
\* any new_id in 0..252 the call reaches the bus.
C13_IdRangeValidated ==
    Returned("change_motor_id") =>
        IF op.args[2] < 0 \/ op.args[2] > 252
        THEN /\ ret = FALSE
             /\ trace = <<>>
             /\ linkBaud = startBaud
             /\ devId = startId
        ELSE /\ trace # <<>>
             /\ trace[1].call = "getBaudRate"

\* new_id 253 rejected for a motor that is on the bus at another rate
C13_Witness ==
    /\ Returned("change_motor_id")
    /\ op.args[2] = 253
    /\ op.args[3] # startBaud
    /\ Responds(devId, devBaud, op.args[1], op.args[3])
    /\ ret = FALSE
    /\ trace = <<>>

----------------------------------------------------------------------------
(* C14, C15: the loops of change_motors_id and change_motors_baudrate *)

BatchLoops == {"change_motors_id", "change_motors_baudrate"}

\* the batch passed the checks made before the loop
PassedValidation ==
    IF op.name = "change_motors_id" THEN IdMappingVerdict(op.args[1]) = "ok"
    ELSE Len(op.args[1]) # 0

\* the number of entries the loop has been through
Processed == Len(op.args[1]) - Len(queue)

\* the entry has nothing to change: it is already at the target
AtTarget(entry) ==
    IF op.name = "change_motors_id" THEN entry[1] = entry[2]
    ELSE entry[2] = op.args[2]

\* the transport calls of a single-motor change show that it succeeded: the
\* register write was acknowledged and no call raised
ChangeSucceeded(t) ==
    /\ \E i \in 1..Len(t) : t[i].call = "write1ByteTxRx" /\ t[i].out = "ok"
    /\ \A i \in 1..Len(t) : ~Raised(t[i].out)

\* the single-motor change the entry is handed to gets as far as the bus
ReachesBus ==
    op.name = "change_motors_baudrate" => op.args[2] \in DOMAIN BAUDRATE_MAP

\* C14: for a batch that passed validation, at every point of the loop the
\* result map has exactly the keys of the entries gone through, the loop
\* returns only after the last entry, whatever failed before, with a map over
\* every key of the input; the entry just gone through was attempted on the
\* bus unless it was at its target (or new_baud is one change_motor_baudrate
\* refuses), and is True exactly when it was at its target or its own change
\* succeeded.
C14_PerMotorIsolation ==
    (op.name \in BatchLoops /\ pc \in {"returned", op.name} /\ PassedValidation) =>
        LET m == op.args[1]
            k == Processed
        IN  /\ DOMAIN acc = {m[i][1] : i \in 1..k}
            /\ pc = "returned" => (k = Len(m) /\ ret = acc)
            /\ k >= 1 =>
                /\ ((~AtTarget(m[k]) /\ ReachesBus) => trace # <<>>)
                /\ acc[m[k][1]] = (AtTarget(m[k]) \/ ChangeSucceeded(trace))

\* the first motor's change failed, the second was attempted and succeeded
C14_Witness ==
    /\ Returned("change_motors_id")
    /\ Len(op.args[1]) = 2
    /\ DOMAIN ret = {1, 2}
    /\ ret[op.args[1][1][1]] = FALSE
    /\ ret[op.args[1][2][1]] = TRUE
    /\ ~AtTarget(op.args[1][2])
    /\ ChangeSucceeded(trace)

\* C15: an entry of change_motors_id whose current ID equals its new ID, and
\* an entry of change_motors_baudrate whose current baud equals new_baud, is
\* reported True and no transport call is made for it.
C15_AtTargetSkipped ==
    (/\ op.name \in BatchLoops
     /\ pc \in {"returned", op.name}
     /\ PassedValidation
     /\ Processed >= 1
     /\ AtTarget(op.args[1][Processed])) =>
        /\ acc[op.args[1][Processed][1]] = TRUE
        /\ trace = <<>>

\* a batch whose second entry is at its target, after a first one that made
\* transport calls
C15_Witness ==
    /\ Returned("change_motors_baudrate")
    /\ Len(op.args[1]) = 2
    /\ ~AtTarget(op.args[1][1])
    /\ AtTarget(op.args[1][2])
    /\ busUsed
    /\ trace = <<>>
    /\ ret[op.args[1][2][1]] = TRUE

----------------------------------------------------------------------------
(* The simulation of FakeU2D2Interface *)

\* the calls of the simulated backend that read motor state
StateReads ==
    {"get_position", "get_velocity", "get_current", "sync_read_state",
     "sync_read_specific", "bulk_read", "bulk_read_positions",
     "bulk_read_velocities", "bulk_read_currents", "bulk_read_states"}

\* motor_id had torque enabled and mode 'position' when the call started
Tracking(motor_id) ==
    /\ motor_id \in DOMAIN startFake._motor_states
    /\ DictGet(startFake._torque_enabled, motor_id, FALSE)
    /\ DictGet(startFake._motor_modes, motor_id, "None") = "position"

\* v lies between a and b, ends included
Between(a, v, b) == (a <= v /\ v <= b) \/ (b <= v /\ v <= a)

\* C16: a state read moves a motor with torque enabled and mode 'position'
\* towards its goal only: the position after the read lies between the
\* position before it and the goal, so the distance to the goal does not
\* grow and the goal is not crossed; the same holds for the integer
\* positions, and sync_read_state reports the integer part of the position
\* after the step.  Over a sequence of reads with the goal, torque and mode
\* kept, each read starts where the one before ended, so positions and
\* reported positions are monotone in the direction of the goal.
C16_MonotoneTowardGoal ==
    (pc = "returned" /\ op.name \in StateReads) =>
        \A motor_id \in DOMAIN startFake._motor_states :
            Tracking(motor_id) =>
                LET goal   == startFake._goal_positions[motor_id]
                    before == startFake._motor_states[motor_id].position
                    after  == fake._motor_states[motor_id].position
                IN  /\ fake._goal_positions[motor_id] = goal
                    /\ Between(before, after, goal * Scale)
                    /\ Abs(goal * Scale - after) <= Abs(goal * Scale - before)
                    /\ Between(PyInt(before), PyInt(after), goal)
                    /\ (op.name = "sync_read_state" /\ exc = "none") =>
                          \A i \in 1..Len(fake.motor_ids[1]) :
                              fake.motor_ids[1][i] = motor_id =>
                                  ret[1][i] = PyInt(after)

\* a sync_read_state reported a position of motor 1 one closer to a goal
\* below it
C16_Witness ==
    /\ pc = "returned"
    /\ op.name = "sync_read_state"
    /\ exc = "none"
    /\ Tracking(1)
    /\ startFake._goal_positions[1] * Scale < startFake._motor_states[1].position
    /\ ret[1][1] < PyInt(startFake._motor_states[1].position)
    /\ ret[1][1] > startFake._goal_positions[1]

\* the motors a read names, which it initializes if they have no state
NamedMotors ==
    IF op.name \in {"get_position", "get_velocity", "get_current"} THEN <<op.args[1]>>
    ELSE IF op.name = "bulk_read"
    THEN [i \in 1..Len(op.args[1]) |-> op.args[1][i][1]]
    ELSE IF op.name \in {"bulk_read_positions", "bulk_read_velocities",
                         "bulk_read_currents", "bulk_read_states"}
    THEN op.args[1]
    ELSE <<>>

\* the call left the state one simulation step after the one it started in
AdvancedOneStep ==
    LET prepared == InitializeMissing(startFake, NamedMotors, 1)
    IN  \E drift \in Drifts(prepared) : fake = _simulate_motor_behavior(prepared, drift)

\* C17: every state read that returns (get_position, get_velocity,
\* get_current, sync_read_state, sync_read_specific, bulk_read and the
\* bulk_read_* conveniences) has advanced the simulation by one step.
C17_EveryReadAdvances ==
    (pc = "returned" /\ op.name \in StateReads /\ exc = "none") => AdvancedOneStep

\* the reads that do step the simulation
SteppingReads ==
    {"get_position", "get_velocity", "get_current", "sync_read_state", "sync_read_specific"}

\* the calls of the simulated backend that write a goal
GoalWrites ==
    {"set_goal_position", "set_goal_current", "sync_write_positions", "sync_write_currents"}

\* motor_id had a state and its torque disabled when the call started
TorqueOff(motor_id) ==
    /\ motor_id \in DOMAIN startFake._motor_states
    /\ ~DictGet(startFake._torque_enabled, motor_id, FALSE)

\* C18: a state read or a goal write, of whatever motor, leaves the present
\* position, velocity and current of every motor whose torque is disabled as
\* they were, whatever its mode and goals.
C18_TorqueOffFrozen ==
    (pc = "returned" /\ op.name \in StateReads \cup GoalWrites) =>
        \A motor_id \in DOMAIN startFake._motor_states :
            TorqueOff(motor_id) =>
                /\ motor_id \in DOMAIN fake._motor_states
                /\ fake._motor_states[motor_id] = startFake._motor_states[motor_id]

\* motor 1 was stopped on its way by disable_torque, away from its goal, and
\* a read stepped the simulation
C18_Witness ==
    /\ pc = "returned"
    /\ op.name \in SteppingReads
    /\ exc = "none"
    /\ TorqueOff(1)
    /\ startFake._motor_states[1].velocity # 0
    /\ Abs(startFake._goal_positions[1] * Scale - startFake._motor_states[1].position)
           > 5 * Scale
    /\ fake._motor_states[1] = startFake._motor_states[1]

----------------------------------------------------------------------------
(* The codec *)

\* the bulk write handed the bytes b to the transport for its one motor
Produced(b) ==
    /\ exc = "none"
    /\ trace # <<>>
    /\ trace[1].call = "addParam"
    /\ trace[1].args[3] = b

\* C19: encoding what was decoded gives the bytes back: the bytes
\* bulk_write_currents produces for parse_current(b) are b for every 2-byte
\* b, and the bytes bulk_write_positions produces for parse_position(b) are
\* b for every 4-byte b.
C19_EncodeAfterDecode ==
    /\ (pc = "returned" /\ op.name = "bulk_write_currents" /\ Len(raw) = 2) => Produced(raw)
    /\ (pc = "returned" /\ op.name = "bulk_write_positions" /\ Len(raw) = 4) => Produced(raw)

\* the same for the 2-byte register alone
CurrentRoundTrip ==
    (pc = "returned" /\ op.name = "bulk_write_currents" /\ Len(raw) = 2) => Produced(raw)

\* the same for the 4-byte strings that decode to a position of 0 or more
NonNegativePositionRoundTrip ==
    (pc = "returned" /\ op.name = "bulk_write_positions" /\ Len(raw) = 4 /\ raw[4] < 128) =>
        Produced(raw)

TwoByteDecoders == {"parse_current", "_parse_current"}
FourByteDecoders == {"parse_position", "parse_velocity", "_parse_position", "_parse_velocity"}

\* value is the two's-complement reading of the 2-byte little-endian string b
Signed16(b, value) ==
    LET u == b[1] + 256 * b[2]
    IN  value = IF u <= 32767 THEN u ELSE u - 65536

\* value is the two's-complement reading of the 4-byte little-endian string
\* b: it is a signed 32-bit number that is the unsigned value of b modulo
\* 2^32, non-negative exactly when the unsigned value is at most 2^31 - 1
Signed32(b, value) ==
    /\ value >= 0 - 2147483647 - 1
    /\ value <= 2147483647
    /\ value % 65536 = b[1] + 256 * b[2]
    /\ (value \div 65536) % 65536 = b[3] + 256 * b[4]
    /\ value >= 0 <=> b[4] <= 127

\* C20: every decoder of either backend returns the two's-complement
\* reading of a string of its width (FF 7F is 32767, 00 80 is -32768), and
\* on every string, the shorter ones included, the decoder of U2D2Interface
\* and the one of FakeU2D2Interface return the same value.
C20_DecodersAgree ==
    /\ parse_current(raw) = _parse_current(raw)
    /\ parse_position(raw) = _parse_position(raw)
    /\ parse_velocity(raw) = _parse_velocity(raw)
    /\ (pc = "returned" /\ op.name \in TwoByteDecoders) =>
            /\ Len(raw) = 2 => Signed16(raw, ret)
            /\ raw = <<255, 127>> => ret = 32767
            /\ raw = <<0, 128>> => ret = 0 - 32768
            /\ ret = parse_current(raw)
            /\ ret = _parse_current(raw)
    /\ (pc = "returned" /\ op.name \in FourByteDecoders) =>
            /\ Len(raw) = 4 => Signed32(raw, ret)
            /\ ret = parse_position(raw)
            /\ ret = _parse_position(raw)
            /\ ret = parse_velocity(raw)
            /\ ret = _parse_velocity(raw)

\* the decoder of the simulated backend read 00 80 as -32768, as the one of
\* U2D2Interface does
C20_Witness ==
    /\ pc = "returned"
    /\ op.name = "_parse_current"
    /\ raw = <<0, 128>>
    /\ ret = 0 - 32768
    /\ parse_current(raw) = ret

----------------------------------------------------------------------------
(* The two backends *)

SetModeCalls == {"set_motor_mode", "U2D2Interface.set_motor_mode"}

\* C21: a mode name is rejected with a validation error by both backends or
\* by neither, and a rejected name causes no register write on the hardware
\* backend and no change of the simulated backend.
C21_SameModeContract ==
    (pc = "returned" /\ op.name \in SetModeCalls) =>
        LET motor_id == op.args[1]
            mode     == op.args[2]
            hardware == U2D2_set_motor_mode(motor_id, mode, "ok")
            simulated == set_motor_mode(startFake, motor_id, mode)
        IN  /\ (hardware.exc = "ValueError") <=> (simulated.exc = "ValueError")
            /\ exc = "ValueError" => (trace = <<>> /\ fake = startFake)

\* a rejected name changes nothing on either backend
RejectedModeHasNoEffect ==
    (pc = "returned" /\ op.name \in SetModeCalls /\ exc = "ValueError") =>
        (trace = <<>> /\ fake = startFake)

----------------------------------------------------------------------------
(* U2D2Interface.bulk_write *)

\* the places of the trace where a transaction is sent
Transactions == {i \in 1..Len(trace) : trace[i].call = "txPacket"}

\* C22: bulk_write issues no transport call for an empty list; for a
\* non-empty one it adds every entry, in order, whether or not an earlier
\* add failed, and then sends exactly one transaction.
C22_OneTransaction ==
    (pc = "returned" /\ op.name = "bulk_write") =>
        LET write_params == op.args[1]
            n == Len(write_params)
        IN  /\ n = 0 => trace = <<>>
            /\ n > 0 =>
                /\ Len(trace) = n + 1
                /\ Transactions = {n + 1}
                /\ \A i \in 1..n :
                      /\ trace[i].call = "addParam"
                      /\ trace[i].args = write_params[i]

\* the add of the first of two entries failed; the second was added and the
\* transaction sent
C22_Witness ==
    /\ pc = "returned"
    /\ op.name = "bulk_write"
    /\ Len(op.args[1]) = 2
    /\ trace[1].out = "fail"
    /\ trace[2].call = "addParam"
    /\ trace[2].out = "ok"
    /\ trace[3].call = "txPacket"

----------------------------------------------------------------------------
(* U2D2Interface.change_motor_baudrate: the register write *)

\* the places of the trace where a register is written
RegisterWrites == {i \in 1..Len(trace) : trace[i].call = "write1ByteTxRx"}

\* a change_motor_baudrate with a new_baud of the table has returned
ValidBaudChangeReturned ==
    /\ Returned("change_motor_baudrate")
    /\ op.args[3] \in DOMAIN BAUDRATE_MAP

\* at most one write; it carries the code of new_baud to address 8 of
\* motor_id, follows an accepted setBaudRate(current_baud), and a
\* setBaudRate(original rate) follows it
WriteIsWellPlaced ==
    /\ Cardinality(RegisterWrites) <= 1
    /\ \A i \in RegisterWrites :
          /\ trace[i].args = <<op.args[1], 8, BAUDRATE_MAP[op.args[3]]>>
          /\ BAUDRATE_MAP[op.args[3]] \in 0..6
          /\ RateOfCode(BAUDRATE_MAP[op.args[3]]) = op.args[3]
          /\ i > 1
          /\ trace[i - 1] = Call("setBaudRate", <<op.args[2]>>, "ok")
          /\ \E j \in (i + 1)..Len(trace) :
                /\ trace[j].call = "setBaudRate"
                /\ trace[j].args = <<startBaud>>

\* C23: a change_motor_baudrate with a valid new_baud issues at most one
\* register write, carrying the code of new_baud to the baud-rate register
\* of motor_id while the link is at current_baud, with the restore after
\* it, and returns True exactly when that write reported success.
C23_WriteDecidesResult ==
    ValidBaudChangeReturned =>
        /\ WriteIsWellPlaced
        /\ ret = TRUE <=> \E i \in RegisterWrites : trace[i].out = "ok"

\* the same with the result only implied one way: True needs a write that
\* reported success
TrueNeedsAcknowledgedWrite ==
    ValidBaudChangeReturned =>
        /\ WriteIsWellPlaced
        /\ ret = TRUE => \E i \in RegisterWrites : trace[i].out = "ok"

\* False after an acknowledged write happens only when a later call raised
FalseAfterWriteNeedsRaise ==
    (ValidBaudChangeReturned /\ ret = FALSE
     /\ \E i \in RegisterWrites : trace[i].out = "ok") =>
        \E j \in 1..Len(trace) : trace[j].call = "setBaudRate" /\ Raised(trace[j].out)

----------------------------------------------------------------------------
(* U2D2Interface.scan_motors_at_baudrate: what one scan returns *)

\* how the setBaudRate(baudrate) of the scan ended, "none" if it was not reached
ProbeRateOutcome == IF Len(trace) >= 2 THEN trace[2].out ELSE "none"

Pings == {i \in 1..Len(trace) : trace[i].call = "ping"}

\* every ID of the scan range was pinged, in scan order
AllPinged ==
    /\ Len(trace) >= 2 + op.args[2]
    /\ \A i \in 1..op.args[2] : trace[2 + i].call = "ping" /\ trace[2 + i].args = <<i>>

\* the IDs whose ping reported success, in scan order
Acknowledged ==
    LET Ok(id) == trace[2 + id].out = "ok" IN SelectSeq(RangeTo(op.args[2]), Ok)

\* C24: a scan whose setBaudRate(baudrate) is refused returns [] without a
\* ping, and scan_all_baudrates goes on over every candidate rate; a scan
\* whose rate is set pings every ID of the range, raising pings included,
\* and returns exactly the IDs whose ping reported success, in scan order.
C24_ScanResult ==
    /\ (Returned("scan_motors_at_baudrate") /\ ProbeRateOutcome = "refuse") =>
            (ret = <<>> /\ Pings = {})
    /\ (Returned("scan_motors_at_baudrate") /\ ProbeRateOutcome = "ok") =>
            (AllPinged /\ ret = Acknowledged)
    /\ Returned("scan_all_baudrates") => Len(hist) = Len(SCAN_BAUDRATES)

\* the restoring setBaudRate of the scan raised
RestoreRaised ==
    \E i \in 3..Len(trace) : trace[i].call = "setBaudRate" /\ Raised(trace[i].out)

\* the same, for the scans whose restoring setBaudRate does not raise
ScanResultUnlessRestoreRaised ==
    /\ (Returned("scan_motors_at_baudrate") /\ ProbeRateOutcome = "refuse") =>
            (ret = <<>> /\ Pings = {})
    /\ (Returned("scan_motors_at_baudrate") /\ ProbeRateOutcome = "ok") =>
            /\ AllPinged
            /\ ~RestoreRaised => ret = Acknowledged
            /\ RestoreRaised => ret = <<>>
    /\ Returned("scan_all_baudrates") => Len(hist) = Len(SCAN_BAUDRATES)

----------------------------------------------------------------------------
(* FakeU2D2Interface: goal writes *)

\* the (motor, goal) pairs the returned goal write assigned
Assigned ==
    IF op.name \in {"set_goal_position", "set_goal_current"}
    THEN {<<op.args[1], op.args[2]>>}
    ELSE IF op.name \in {"sync_write_positions", "sync_write_currents"}
    THEN {<<startFake.motor_ids[1][i], op.args[1][i]>> : i \in 1..Len(op.args[1])}
    ELSE {<<op.args[1][i], op.args[2][i]>> : i \in 1..Len(op.args[1])}

PositionWrites == {"set_goal_position", "sync_write_positions", "bulk_write_positions"}
CurrentWrites == {"set_goal_current", "sync_write_currents", "bulk_write_currents"}

\* the goal write stored its goal for motor a[1], and left its torque flag
\* and mode as they were
Kept(a) ==
    /\ op.name \in PositionWrites =>
          (a[1] \in DOMAIN fake._goal_positions /\ fake._goal_positions[a[1]] = a[2])
    /\ op.name \in CurrentWrites =>
          (a[1] \in DOMAIN fake._goal_currents /\ fake._goal_currents[a[1]] = a[2])
    /\ DictGet(fake._torque_enabled, a[1], FALSE)
          = DictGet(startFake._torque_enabled, a[1], FALSE)
    /\ a[1] \in DOMAIN startFake._motor_modes =>
          fake._motor_modes[a[1]] = startFake._motor_modes[a[1]]

\* the motor had been referenced by an earlier call that gave it a state
HadState(a) == a[1] \in DOMAIN startFake._motor_states

\* C25: a goal write that returns has stored its goal for every motor it
\* names, a motor no earlier call referenced included, and left the torque
\* flag and the mode of that motor unchanged; a call that is not a goal
\* write leaves every stored goal as it was.
C25_GoalWriteKept ==
    /\ (pc = "returned" /\ exc = "none" /\ op.name \in PositionWrites \cup CurrentWrites) =>
            \A a \in Assigned : Kept(a)
    /\ (pc = "returned" /\ op.name \notin PositionWrites \cup CurrentWrites) =>
            /\ \A m \in DOMAIN startFake._goal_positions :
                  fake._goal_positions[m] = startFake._goal_positions[m]
            /\ \A m \in DOMAIN startFake._goal_currents :
                  fake._goal_currents[m] = startFake._goal_currents[m]

\* the same for the motors that already had a state when the write was made
GoalWriteKeptForKnownMotors ==
    /\ (pc = "returned" /\ exc = "none" /\ op.name \in PositionWrites \cup CurrentWrites) =>
            \A a \in Assigned : HadState(a) => Kept(a)
    /\ (pc = "returned" /\ op.name \notin PositionWrites \cup CurrentWrites) =>
            /\ \A m \in DOMAIN startFake._goal_positions :
                  fake._goal_positions[m] = startFake._goal_positions[m]
            /\ \A m \in DOMAIN startFake._goal_currents :
                  fake._goal_currents[m] = startFake._goal_currents[m]

----------------------------------------------------------------------------
(* FakeU2D2Interface: the bulk readers *)

StateBulkReaders ==
    BulkReaders \ {"bulk_read"}

\* the integer state the simulated backend holds for motor_id
Stored(motor_id) ==
    LET st == fake._motor_states[motor_id]
    IN  [position |-> PyInt(st.position),
         velocity |-> PyInt(st.velocity),
         current  |-> st.current]

\* C26: bulk_read_positions, bulk_read_velocities, bulk_read_currents and
\* bulk_read_states of the simulated backend return without error, and give
\* for each motor asked for the integer position, velocity and current of
\* its stored state, negative values included.
C26_BulkReadersReturnStoredState ==
    /\ (pc = "returned" /\ op.name \in StateBulkReaders) => exc = "none"
    /\ (pc = "returned" /\ op.name \in StateBulkReaders /\ exc = "none") =>
            \A motor_id \in ElemsOf(op.args[1]) :
                /\ op.name = "bulk_read_positions" => ret[motor_id] = Stored(motor_id).position
                /\ op.name = "bulk_read_velocities" => ret[motor_id] = Stored(motor_id).velocity
                /\ op.name = "bulk_read_currents" => ret[motor_id] = Stored(motor_id).current
                /\ op.name = "bulk_read_states" => ret[motor_id] = Stored(motor_id)

\* a bulk reader that returns does give the stored values
BulkReadersThatReturnAreRight ==
    (pc = "returned" /\ op.name \in StateBulkReaders /\ exc = "none") =>
        \A motor_id \in ElemsOf(op.args[1]) :
            /\ op.name = "bulk_read_positions" => ret[motor_id] = Stored(motor_id).position
            /\ op.name = "bulk_read_velocities" => ret[motor_id] = Stored(motor_id).velocity
            /\ op.name = "bulk_read_currents" => ret[motor_id] = Stored(motor_id).current
            /\ op.name = "bulk_read_states" => ret[motor_id] = Stored(motor_id)

\* a bulk reader raises only over a negative stored value
BulkReadersRaiseOnlyOnNegative ==
    (pc = "returned" /\ op.name \in StateBulkReaders /\ exc # "none") =>
        \E motor_id \in ElemsOf(op.args[1]) :
            \/ Stored(motor_id).position < 0
            \/ Stored(motor_id).velocity < 0
            \/ Stored(motor_id).current < 0

----------------------------------------------------------------------------
(* U2D2Interface.change_motors_id on a bus of distinct devices *)

\* at the start of the call each current ID of the mapping named exactly
\* one device
NamesOneDeviceEach ==
    \A i \in 1..Len(op.args[1]) :
        Cardinality({d \in Dev : startId[d] = op.args[1][i][1]}) = 1

\* every entry gone through so far was reported as changed
AllChangedSoFar ==
    \A current_id \in DOMAIN acc : acc[current_id]

DistinctIds(ids) ==
    \A d, e \in Dev : d # e => ids[d] # ids[e]

\* the ID the mapping assigns to the device d, which started the call
\* under a current ID of the mapping
MappedId(d) ==
    LET i == CHOOSE i \in 1..Len(op.args[1]) : op.args[1][i][1] = startId[d]
    IN  op.args[1][i][2]

InMapping(d) ==
    \E i \in 1..Len(op.args[1]) : op.args[1][i][1] = startId[d]

\* C27: for a mapping change_motors_id accepts, on a bus whose devices
\* hold distinct IDs, each current ID of the mapping naming one device, and
\* with every change reported as done, no two devices hold the same ID at
\* any point of the call, and after it each device of the mapping holds the
\* ID the mapping assigns to the ID it started with.
C27_MappingApplied ==
    (/\ op.name = "change_motors_id"
     /\ pc \in {"change_motors_id", "returned"}
     /\ PassedValidation
     /\ NamesOneDeviceEach
     /\ DistinctIds(startId)
     /\ AllChangedSoFar) =>
        /\ DistinctIds(devId)
        /\ pc = "returned" =>
                \A d \in Dev : InMapping(d) => devId[d] = MappedId(d)

\* the new IDs of the mapping are held by no device when the call starts
NewIdsAreFree ==
    \A i \in 1..Len(op.args[1]) :
        \/ op.args[1][i][1] = op.args[1][i][2]
        \/ \A d \in Dev : startId[d] # op.args[1][i][2]

\* with new IDs no device holds at the start, the mapping is applied as
\* written and no two devices ever share an ID
MappingAppliedToFreeIds ==
    (/\ op.name = "change_motors_id"
     /\ pc \in {"change_motors_id", "returned"}
     /\ PassedValidation
     /\ NamesOneDeviceEach
     /\ DistinctIds(startId)
     /\ NewIdsAreFree
     /\ AllChangedSoFar) =>
        /\ DistinctIds(devId)
        /\ pc = "returned" =>
                \A d \in Dev : InMapping(d) => devId[d] = MappedId(d)

----------------------------------------------------------------------------
(* U2D2Interface.get_position and get_current, next to the bulk readers,   *)
(* over one register content: `raw` is the little-endian content of the     *)
(* register of motor 1 that is read                                          *)

\* COMM_SUCCESS with no error bit, COMM_SUCCESS with an error bit of the
\* status packet set, or a failed round trip
ReadOutcomes == {"ok", "error", "fail"}

\* what read4ByteTxRx/read2ByteTxRx hands over: the register content as an
\* unsigned integer after COMM_SUCCESS, 0 otherwise
ReadValue(content, c) ==
    IF c = "fail" THEN U32(0, 0) ELSE content

\* get_position(motor_id) over a register holding `content`; the result is
\* the unsigned value the transport handed over
U2D2_get_position(motor_id, content, c) ==
    LET dxl_present_position == ReadValue(content, c)
    IN  [trace |-> <<Call("read4ByteTxRx", <<motor_id, ADDR_PRESENT_POSITION>>, c)>>,
         ret   |-> dxl_present_position,
         exc   |-> "none"]

\* get_current(motor_id) over a register holding `content`; the test for
\* 0xFFFF comes after the subtraction of 65536
U2D2_get_current(motor_id, content, c) ==
    LET dxl_present_current == ReadValue(content, c).lo
        signed == IF dxl_present_current > 32767
                  THEN dxl_present_current - 65536
                  ELSE dxl_present_current
    IN  [trace |-> <<Call("read2ByteTxRx", <<motor_id, ADDR_PRESENT_CURRENT>>, c)>>,
         ret   |-> IF c = "fail" THEN 0
                   ELSE IF c = "error" THEN 0
                   ELSE IF signed = 65535 THEN 0
                   ELSE signed,
         exc   |-> "none"]

\* the one-entry bulk transaction over the same register: it succeeds and
\* the entry is available and holds `content`, or the entry is unavailable,
\* or the transaction fails
RegisterScripts(content) ==
    {[c |-> "ok", v |-> <<TRUE>>, d |-> <<content>>],
     [c |-> "ok", v |-> <<FALSE>>, d |-> <<U32(0, 0)>>],
     [c |-> "fail", v |-> <<FALSE>>, d |-> <<U32(0, 0)>>]}

U2D2GetPosition ==
    /\ pc = "idle"
    /\ Len(raw) = LEN_PRESENT_POSITION
    /\ \E c \in ReadOutcomes :
        CodecCall("U2D2Interface.get_position", <<1>>,
                  U2D2_get_position(1, UnpackI(raw), c))

U2D2GetCurrent ==
    /\ pc = "idle"
    /\ Len(raw) = LEN_PRESENT_CURRENT
    /\ \E c \in ReadOutcomes :
        CodecCall("U2D2Interface.get_current", <<1>>,
                  U2D2_get_current(1, U32(0, UnpackH(raw)), c))

RegisterBulkReadPositions ==
    /\ pc = "idle"
    /\ Len(raw) = LEN_PRESENT_POSITION
    /\ \E x \in RegisterScripts(UnpackI(raw)) :
        CodecCall("U2D2Interface.bulk_read_positions", <<<<1>>>>,
                  BulkReadPositionsRun(<<1>>, x) @@ [exc |-> "none"])

RegisterBulkReadCurrents ==
    /\ pc = "idle"
    /\ Len(raw) = LEN_PRESENT_CURRENT
    /\ \E x \in RegisterScripts(U32(0, UnpackH(raw))) :
        CodecCall("U2D2Interface.bulk_read_currents", <<<<1>>>>,
                  BulkReadCurrentsRun(<<1>>, x) @@ [exc |-> "none"])

NextRegister ==
    \/ U2D2GetPosition
    \/ U2D2GetCurrent
    \/ RegisterBulkReadPositions
    \/ RegisterBulkReadCurrents
    \/ Return

SpecRegister == CodecInit /\ [][NextRegister]_vars

\* the round trip of the single-motor read ended with COMM_SUCCESS and no
\* error bit
ReadSucceeded ==
    /\ pc = "returned"
    /\ Len(trace) = 1
    /\ trace[1].out = "ok"

\* what bulk_read_positions([1])[1] and bulk_read_currents([1])[1] give
\* over the register content when the transaction succeeds
BulkPositionOfRegister ==
    BulkReadPositionsRun(<<1>>, [c |-> "ok", v |-> <<TRUE>>, d |-> <<UnpackI(raw)>>]).ret[1]

BulkCurrentOfRegister ==
    BulkReadCurrentsRun(<<1>>, [c |-> "ok", v |-> <<TRUE>>, d |-> <<U32(0, UnpackH(raw))>>]).ret[1]

\* the unsigned 32-bit value u is the integer n
SameInteger(u, n) ==
    /\ u.hi <= 32767
    /\ n = u.hi * 65536 + u.lo

\* C28: after a successful round trip get_position(1) is the integer
\* bulk_read_positions([1])[1] decodes from the same 32-bit register
\* content, and get_current(1) is the integer bulk_read_currents([1])[1]
\* decodes from the same 16-bit content.
C28_SingleAndBulkReadAgree ==
    /\ (ReadSucceeded /\ op.name = "U2D2Interface.get_position") =>
            SameInteger(ret, BulkPositionOfRegister)
    /\ (ReadSucceeded /\ op.name = "U2D2Interface.get_current") =>
            ret = BulkCurrentOfRegister

\* the current readers agree, and the position readers agree on the
\* contents whose top bit is clear
ReadersAgreeOnCurrentAndNonNegativePosition ==
    /\ (ReadSucceeded /\ op.name = "U2D2Interface.get_position" /\ raw[4] < 128) =>
            SameInteger(ret, BulkPositionOfRegister)
    /\ (ReadSucceeded /\ op.name = "U2D2Interface.get_current") =>
            ret = BulkCurrentOfRegister

\* the bulk readers return the two's-complement reading of the register
BulkReadersDecodeSigned ==
    /\ (pc = "returned" /\ op.name = "U2D2Interface.bulk_read_positions"
          /\ trace[Len(trace)].out = "yes") => Signed32(raw, ret[1])
    /\ (pc = "returned" /\ op.name = "U2D2Interface.bulk_read_currents"
          /\ trace[Len(trace)].out = "yes") => Signed16(raw, ret[1])

----------------------------------------------------------------------------
(* U2D2Interface.change_motors_baudrate with a rate outside the table *)

\* change_motors_baudrate was called with a non-empty map and a new_baud
\* that BAUDRATE_MAP does not have
InvalidNewBaud ==
    /\ op.name = "change_motors_baudrate"
    /\ Len(op.args[1]) # 0
    /\ op.args[2] \notin DOMAIN BAUDRATE_MAP

\* C29: change_motors_baudrate with a new_baud outside the table makes no
\* transport call, and returns a map that has every motor of the input map
\* at False.
C29_InvalidBaudRejected ==
    /\ (InvalidNewBaud /\ pc \in {"change_motors_baudrate", "returned"}) =>
            ~busUsed /\ trace = <<>>
    /\ (InvalidNewBaud /\ pc = "returned") =>
            /\ DOMAIN ret = {op.args[1][i][1] : i \in 1..Len(op.args[1])}
            /\ \A motor_id \in DOMAIN ret : ret[motor_id] = FALSE

\* no transport call is made, and an entry is False unless the map names
\* new_baud itself as its current rate
InvalidBaudRejectedUnlessSkipped ==
    /\ (InvalidNewBaud /\ pc \in {"change_motors_baudrate", "returned"}) =>
            ~busUsed /\ trace = <<>>
    /\ (InvalidNewBaud /\ pc = "returned") =>
            /\ DOMAIN ret = {op.args[1][i][1] : i \in 1..Len(op.args[1])}
            /\ \A i \in 1..Len(op.args[1]) :
                    ret[op.args[1][i][1]] = (op.args[1][i][2] = op.args[2])

----------------------------------------------------------------------------
(* FakeU2D2Interface polled by a caller that has set its motors up and     *)
(* writes no goal any more                                                   *)

\* set_motor_state, set_goal_position and, if torque, enable_torque
SetUp(f, motor_id, start, goal, torque) ==
    LET placed == set_motor_state(f, motor_id, Some(start), None, None).fake
        aimed  == set_goal_position(placed, motor_id, goal).fake
    IN  IF torque THEN enable_torque(aimed, motor_id).fake ELSE aimed

\* where the caller put motor 1 and motor 2 before it began to poll:
\* (start position, goal, torque enabled)
SettleInputs1 ==
    {<<620, 600, TRUE>>, <<0 - 20, 0, TRUE>>, <<0 - 20, 600, TRUE>>,
     <<0, 0, TRUE>>, <<620, 600, FALSE>>}
SettleInputs2 == {<<620, 600, TRUE>>}

SettleInit ==
    /\ linkBaud = 4000000
    /\ devId = [d \in Dev |-> 1]
    /\ devBaud = [d \in Dev |-> 6]
    /\ op = [name |-> "none", args |-> <<>>]
    /\ startBaud = linkBaud
    /\ startId = devId
    /\ trace = <<>>
    /\ ret = <<>>
    /\ pc = "idle"
    /\ idx = 0
    /\ acc = <<>>
    /\ hist = <<>>
    /\ queue = <<>>
    /\ busUsed = FALSE
    /\ \E a \in SettleInputs1, b \in SettleInputs2 :
        fake = SetUp(SetUp(FakeU2D2Interface(Some(<<1, 2>>)), 1, a[1], a[2], a[3]),
                     2, b[1], b[2], b[3])
    /\ startFake = fake
    /\ exc = "none"
    /\ called = {}
    /\ lastInitIds = None
    /\ simSteps = 0
    /\ raw = <<>>

\* sync_read_state in a polling loop: the reads are not counted, the
\* positions a motor goes through on its way to a fixed goal are finitely many
PollState ==
    /\ \E drift \in Drifts(fake) :
        FakeCall("sync_read_state", <<>>, sync_read_state(fake, drift))
    /\ UNCHANGED <<called, lastInitIds, simSteps>>

NextSettle == PollState \/ Return

\* the caller keeps reading, and every call returns; each of these steps
\* changes pc
SpecSettle ==
    /\ SettleInit
    /\ [][NextSettle]_vars
    /\ WF_pc(PollState)
    /\ WF_pc(Return)

\* motor_id has torque enabled and mode 'position'
TorqueOnInPositionMode(motor_id) ==
    /\ motor_id \in DOMAIN fake._motor_states
    /\ DictGet(fake._torque_enabled, motor_id, FALSE)
    /\ DictGet(fake._motor_modes, motor_id, "None") = "position"

\* motor_id is within the dead-band of its goal and at rest
Settled(motor_id) ==
    /\ Abs(fake._goal_positions[motor_id] * Scale
             - fake._motor_states[motor_id].position) <= 5 * Scale
    /\ fake._motor_states[motor_id].velocity = 0

\* C30: with the goals no longer rewritten and the caller reading again
\* and again, a motor with torque enabled and mode 'position' comes to be
\* within 5 of its goal with velocity 0 and stays so for good, and from
\* then on a read leaves its position and velocity as they are.
C30_EventuallySettled ==
    /\ \A motor_id \in SimMotorInputs :
            TorqueOnInPositionMode(motor_id) ~> [](Settled(motor_id))
    /\ [][\A motor_id \in SimMotorInputs :
            (TorqueOnInPositionMode(motor_id) /\ Settled(motor_id)) =>
                fake'._motor_states[motor_id] = fake._motor_states[motor_id]]_fake

\* a read has returned with motor 1, which the caller did not place where
\* it is now, settled at its goal
C30_Witness ==
    /\ pc = "returned"
    /\ op.name = "sync_read_state"
    /\ TorqueOnInPositionMode(1)
    /\ Settled(1)
    /\ fake._motor_states[1].position \notin {start * Scale : start \in StartPositions \cup {0}}
    /\ startFake._motor_states[1].velocity # 0

====
